---- MODULE Spec2Model ----
(***************************************************************************)
(* A model of edgequake-pdf2md's conversion pipeline: the lazy page        *)
(* producer (pipeline/render.rs), the bounded channel, the concurrent and  *)
(* the sequential scheduler and the assembly of the document (convert.rs), *)
(* the per-page VLM caller with its retry loop (pipeline/llm.rs) and the   *)
(* Markdown post-processor (pipeline/postprocess.rs).                      *)
(*                                                                         *)
(* Text is a sequence of characters, each a one-character string; the      *)
(* invisible Unicode characters are the named tokens of Invisible.         *)
(***************************************************************************)
EXTENDS Integers, Sequences, FiniteSets, TLC

\* --------------------------------------------------------------------------
\* Text helpers (the parts of Rust's str API the source uses)
\* --------------------------------------------------------------------------

\* Option<T>: None is the empty sequence and Some(x) the sequence of x alone
None == <<>>

Some(x) == <<x>>

\* char::is_whitespace, for the characters of the model's alphabet
WhiteSpace == {" ", "\t", "\n", "\r", "\f"}

\* the backtick, which a TLA+ string cannot hold
BT == "U+0060"

\* the six characters remove_invisible_chars strips
Invisible == {"U+200B", "U+FEFF", "U+00AD", "U+200C", "U+200D", "U+2060"}

\* UTF-8 length of a character: str::len and str::find count bytes
ByteLen(c) == IF c = "U+00AD" THEN 2 ELSE IF c \in Invisible THEN 3 ELSE 1

RECURSIVE StrBytes(_)
StrBytes(s) == IF s = <<>> THEN 0 ELSE ByteLen(Head(s)) + StrBytes(Tail(s))

StartsWith(s, p) == Len(s) >= Len(p) /\ SubSeq(s, 1, Len(p)) = p

EndsWith(s, p) == Len(s) >= Len(p) /\ SubSeq(s, Len(s) - Len(p) + 1, Len(s)) = p

Contains(s, p) == \E i \in 1..(Len(s) - Len(p) + 1) : SubSeq(s, i, i + Len(p) - 1) = p

RECURSIVE TrimStart(_)
TrimStart(s) == IF s # <<>> /\ Head(s) \in WhiteSpace THEN TrimStart(Tail(s)) ELSE s

RECURSIVE TrimEnd(_)
TrimEnd(s) ==
  IF s # <<>> /\ s[Len(s)] \in WhiteSpace THEN TrimEnd(SubSeq(s, 1, Len(s) - 1)) ELSE s

Trim(s) == TrimStart(TrimEnd(s))

RECURSIVE TrimEndMatches(_, _)
TrimEndMatches(s, c) ==
  IF s # <<>> /\ s[Len(s)] = c THEN TrimEndMatches(SubSeq(s, 1, Len(s) - 1), c) ELSE s

\* str::split('\n'): the segments between line feeds, the last possibly empty
RECURSIVE SplitLF(_, _)
SplitLF(s, cur) ==
  IF s = <<>> THEN <<cur>>
  ELSE IF Head(s) = "\n" THEN <<cur>> \o SplitLF(Tail(s), <<>>)
  ELSE SplitLF(Tail(s), Append(cur, Head(s)))

\* str::lines on text without carriage returns: a final line ending adds no line
Lines(s) ==
  LET segs == SplitLF(s, <<>>)
  IN  IF segs[Len(segs)] = <<>> THEN SubSeq(segs, 1, Len(segs) - 1) ELSE segs

\* [String]::join(sep)
RECURSIVE Join(_, _)
Join(ls, sep) ==
  IF ls = <<>> THEN <<>>
  ELSE IF Len(ls) = 1 THEN ls[1]
  ELSE ls[1] \o sep \o Join(Tail(ls), sep)

RECURSIVE Concat(_)
Concat(parts) == IF parts = <<>> THEN <<>> ELSE Head(parts) \o Concat(Tail(parts))

RECURSIVE CountChar(_, _)
CountChar(s, c) ==
  IF s = <<>> THEN 0 ELSE (IF Head(s) = c THEN 1 ELSE 0) + CountChar(Tail(s), c)

\* index of the first occurrence of c in s, 0 when there is none
RECURSIVE IndexOf(_, _, _)
IndexOf(s, c, i) ==
  IF i > Len(s) THEN 0 ELSE IF s[i] = c THEN i ELSE IndexOf(s, c, i + 1)

\* decimal digits of a natural number, as format!("{}", n) writes them
Digit(d) == <<"0", "1", "2", "3", "4", "5", "6", "7", "8", "9">>[d + 1]

RECURSIVE Decimal(_)
Decimal(n) == IF n < 10 THEN <<Digit(n)>> ELSE Append(Decimal(n \div 10), Digit(n % 10))

\* --------------------------------------------------------------------------
\* Post-processor (src/pipeline/postprocess.rs)
\* --------------------------------------------------------------------------

FenceOpenPlain == <<BT, BT, BT, "\n">>

FenceOpenMarkdown == <<BT, BT, BT, "m", "a", "r", "k", "d", "o", "w", "n", "\n">>

FenceClose == <<"\n", BT, BT, BT>>

\* RE_OUTER_FENCES = (?s)^FENCE(?:markdown)?\n(.*)\nFENCE\s*$ (FENCE: three
\* backticks) on input.trim(): the
\* trimmed text ends in no white space, so the closing fence is its end; the
\* capture is what lies between the opening line and the closing fence.
FenceCapture(t, open) ==
  IF StartsWith(t, open) /\ Len(t) >= Len(open) + Len(FenceClose) /\ EndsWith(t, FenceClose)
  THEN <<SubSeq(t, Len(open) + 1, Len(t) - Len(FenceClose))>>
  ELSE <<>>

strip_markdown_fences(input) ==
  LET t  == Trim(input)
      c1 == FenceCapture(t, FenceOpenMarkdown)
      c2 == FenceCapture(t, FenceOpenPlain)
  IN  IF c1 # <<>> THEN c1[1] ELSE IF c2 # <<>> THEN c2[1] ELSE input

RECURSIVE normalise_line_endings(_)
normalise_line_endings(s) ==
  IF s = <<>> THEN <<>>
  ELSE IF Head(s) = "\r"
       THEN IF Len(s) >= 2 /\ s[2] = "\n"
            THEN <<"\n">> \o normalise_line_endings(SubSeq(s, 3, Len(s)))
            ELSE <<"\n">> \o normalise_line_endings(Tail(s))
       ELSE <<Head(s)>> \o normalise_line_endings(Tail(s))

trim_trailing_whitespace(input) ==
  LET ls == Lines(input)
  IN  Join([i \in 1..Len(ls) |-> TrimEnd(ls[i])], <<"\n">>)

\* length of the run of line feeds starting at position i
RECURSIVE RunLF(_, _)
RunLF(s, i) == IF i <= Len(s) /\ s[i] = "\n" THEN 1 + RunLF(s, i + 1) ELSE 0

\* RE_BLANK_LINES = \n{4,} replaced by three line feeds
RECURSIVE CollapseFrom(_, _)
CollapseFrom(s, i) ==
  IF i > Len(s) THEN <<>>
  ELSE IF s[i] = "\n"
       THEN LET n == RunLF(s, i)
            IN  [k \in 1..(IF n >= 4 THEN 3 ELSE n) |-> "\n"] \o CollapseFrom(s, i + n)
       ELSE <<s[i]>> \o CollapseFrom(s, i + 1)

collapse_blank_lines(input) == CollapseFrom(input, 1)

ensure_final_newline(input) ==
  LET trimmed == TrimEnd(input)
  IN  IF trimmed = <<>> THEN <<"\n">> ELSE Append(trimmed, "\n")

\* line.starts_with('#') && line.chars().nth(line.find(' ').unwrap_or(0)).is_some():
\* find gives a byte offset, nth counts characters
is_heading(line) ==
  LET sp == IndexOf(line, " ", 1)
      b  == IF sp = 0 THEN 0 ELSE StrBytes(SubSeq(line, 1, sp - 1))
  IN  line # <<>> /\ Head(line) = "#" /\ b < Len(line)

RECURSIVE HeadingFrom(_, _, _)
HeadingFrom(ls, i, result) ==
  IF i > Len(ls) THEN result
  ELSE LET r1 == IF is_heading(ls[i]) /\ i > 1
                 THEN TrimEndMatches(result, "\n") \o <<"\n", "\n">>
                 ELSE result
       IN  HeadingFrom(ls, i + 1, r1 \o ls[i] \o <<"\n">>)

normalise_heading_spacing(input) == HeadingFrom(Lines(input), 1, <<>>)

is_table_row(line) ==
  LET trimmed == Trim(line)
  IN  StartsWith(trimmed, <<"|">>) /\ EndsWith(trimmed, <<"|">>) /\ StrBytes(trimmed) > 2

is_separator_row(line) ==
  LET trimmed == Trim(line)
  IN  /\ StartsWith(trimmed, <<"|">>)
      /\ \A i \in 1..Len(trimmed) : trimmed[i] \in {"|", "-", ":", " "}

RECURSIVE RepeatSeq(_, _)
RepeatSeq(s, n) == IF n <= 0 THEN <<>> ELSE s \o RepeatSeq(s, n - 1)

SeparatorFor(line) ==
  LET n         == CountChar(line, "|")
      sat       == IF n >= 1 THEN n - 1 ELSE 0
      col_count == IF sat >= 1 THEN sat ELSE 1
  IN  <<"|">> \o RepeatSeq(<<" ", "-", "-", "-", " ", "|">>, col_count)

RECURSIVE FixTablesFrom(_, _)
FixTablesFrom(ls, i) ==
  IF i > Len(ls) THEN <<>>
  ELSE LET line == ls[i]
           next == IF i + 1 <= Len(ls) THEN ls[i + 1] ELSE <<>>
       IN  IF is_table_row(line) /\ ~is_separator_row(line)
                /\ is_table_row(next) /\ ~is_separator_row(next)
           THEN <<line, SeparatorFor(line)>> \o FixTablesFrom(ls, i + 1)
           ELSE <<line>> \o FixTablesFrom(ls, i + 1)

fix_broken_tables(input) == Join(FixTablesFrom(Lines(input), 1), <<"\n">>)

RECURSIVE MidSepFrom(_, _, _)
MidSepFrom(ls, i, table_line_count) ==
  IF i > Len(ls) THEN <<>>
  ELSE IF is_table_row(ls[i])
       THEN LET n == table_line_count + 1
            IN  IF is_separator_row(ls[i]) /\ n # 2
                THEN MidSepFrom(ls, i + 1, n)
                ELSE <<ls[i]>> \o MidSepFrom(ls, i + 1, n)
       ELSE <<ls[i]>> \o MidSepFrom(ls, i + 1, 0)

remove_mid_table_separators(input) == Join(MidSepFrom(Lines(input), 1, 0), <<"\n">>)

remove_invisible_chars(input) == SelectSeq(input, LAMBDA c : c \notin Invisible)

HttpPrefix == <<"h", "t", "t", "p", ":", "/", "/">>

HttpsPrefix == <<"h", "t", "t", "p", "s", ":", "/", "/">>

fake_domains ==
  { <<"e", "x", "a", "m", "p", "l", "e", ".", "c", "o", "m">>,
    <<"p", "l", "a", "c", "e", "h", "o", "l", "d", "e", "r", ".", "c", "o", "m">>,
    <<"v", "i", "a", ".", "p", "l", "a", "c", "e", "h", "o", "l", "d", "e", "r", ".", "c", "o", "m">>,
    <<"d", "u", "m", "m", "y", "i", "m", "a", "g", "e", ".", "c", "o", "m">>,
    <<"l", "o", "r", "e", "m", "p", "i", "x", "e", "l", ".", "c", "o", "m">>,
    <<"p", "i", "c", "s", "u", "m", ".", "p", "h", "o", "t", "o", "s">>,
    <<"p", "l", "a", "c", "e", "h", "o", "l", "d", ".", "i", "t">> }

is_placeholder_url(url) ==
  LET u == Trim(url)
  IN  \/ u = <<>>
      \/ ~StartsWith(u, HttpPrefix) /\ ~StartsWith(u, HttpsPrefix)
      \/ \E d \in fake_domains : Contains(u, d)

\* RE_IMAGE = !\[([^\]]*)\]\(([^)]*)\) at position i: <<alt, url, end>> or <<>>
ImageMatchAt(s, i) ==
  IF ~(i + 1 <= Len(s) /\ s[i] = "!" /\ s[i + 1] = "[") THEN <<>>
  ELSE LET j == IndexOf(s, "]", i + 2)
       IN  IF j = 0 \/ j + 1 > Len(s) \/ s[j + 1] # "(" THEN <<>>
           ELSE LET k == IndexOf(s, ")", j + 2)
                IN  IF k = 0 THEN <<>>
                    ELSE <<SubSeq(s, i + 2, j - 1), SubSeq(s, j + 2, k - 1), k>>

RECURSIVE ImagesFrom(_, _)
ImagesFrom(s, i) ==
  IF i > Len(s) THEN <<>>
  ELSE LET m == ImageMatchAt(s, i)
       IN  IF m = <<>> THEN <<s[i]>> \o ImagesFrom(s, i + 1)
           ELSE LET alt == Trim(m[1])
                    rep == IF is_placeholder_url(m[2])
                           THEN IF alt = <<>> THEN <<>> ELSE <<"*">> \o alt \o <<"*">>
                           ELSE SubSeq(s, i, m[3])
                IN  rep \o ImagesFrom(s, m[3] + 1)

remove_hallucinated_images(input) == ImagesFrom(input, 1)

clean_markdown(input) ==
  LET s1 == strip_markdown_fences(input)
      s2 == normalise_line_endings(s1)
      s3 == trim_trailing_whitespace(s2)
      s4 == collapse_blank_lines(s3)
      s5 == normalise_heading_spacing(s4)
      s6 == fix_broken_tables(s5)
      s7 == remove_mid_table_separators(s6)
      s8 == remove_hallucinated_images(s7)
      s9 == remove_invisible_chars(s8)
  IN  ensure_final_newline(s9)

\* --------------------------------------------------------------------------
\* Configuration (src/config.rs)
\* --------------------------------------------------------------------------

Max(a, b) == IF a >= b THEN a ELSE b

Min(a, b) == IF a <= b THEN a ELSE b

\* usize::saturating_sub
SaturatingSub(a, b) == IF a >= b THEN a - b ELSE 0

\* the values of a set, ascending
RECURSIVE SortedSeqOf(_)
SortedSeqOf(S) ==
  IF S = {} THEN <<>>
  ELSE LET m == CHOOSE x \in S : \A y \in S : x <= y
       IN  <<m>> \o SortedSeqOf(S \ {m})

SeqRange(s) == {s[i] : i \in 1..Len(s)}

\* (s..e).collect(): s, s + 1, ..., e - 1
RangeVec(s, e) == [k \in 1..(e - s) |-> s + k - 1]

\* Vec::sort_unstable on indices: insertion into the sorted prefix
RECURSIVE InsertSorted(_, _)
InsertSorted(sorted, x) ==
  IF sorted = <<>> THEN <<x>>
  ELSE IF sorted[Len(sorted)] <= x THEN Append(sorted, x)
  ELSE Append(InsertSorted(SubSeq(sorted, 1, Len(sorted) - 1), x), sorted[Len(sorted)])

RECURSIVE sort_unstable(_)
sort_unstable(v) ==
  IF v = <<>> THEN <<>>
  ELSE InsertSorted(sort_unstable(SubSeq(v, 1, Len(v) - 1)), v[Len(v)])

\* a dedup that keeps every element
dedup_nothing(v) == v

\* Vec::dedup: of each run of equal consecutive elements the first is kept
RECURSIVE dedup(_)
dedup(v) ==
  IF Len(v) <= 1 THEN v
  ELSE LET rest == dedup(SubSeq(v, 1, Len(v) - 1))
       IN  IF rest[Len(rest)] = v[Len(v)] THEN rest ELSE Append(rest, v[Len(v)])

\* PageSelection::to_indices: the selection (1-indexed) expanded to 0-indexed pages
to_indices(sel, total_pages) ==
  LET indices ==
        CASE sel.kind = "All"    -> RangeVec(0, total_pages)
          [] sel.kind = "Single" -> IF sel.p >= 1 /\ sel.p <= total_pages
                                    THEN <<sel.p - 1>> ELSE <<>>
          [] sel.kind = "Range"  -> LET s == Max(sel.start, 1) - 1
                                        e == Min(sel.end, total_pages)
                                    IN  RangeVec(s, e)
          [] sel.kind = "Set"    -> LET kept == SelectSeq(sel.pages,
                                                  LAMBDA q : q >= 1 /\ q <= total_pages)
                                    IN  [k \in 1..Len(kept) |-> kept[k] - 1]
  IN  dedup(sort_unstable(indices))

\* PageSeparator::render
PageSeparator_render(sep, page_num) ==
  CASE sep.kind = "None"           -> <<"\n", "\n">>
    [] sep.kind = "HorizontalRule" -> <<"\n", "\n", "-", "-", "-", "\n", "\n">>
    [] sep.kind = "Comment"        -> <<"\n", "\n", "<", "!", "-", "-", " ", "p", "a", "g", "e", " ">>
                                        \o Decimal(page_num) \o <<" ", "-", "-", ">", "\n", "\n">>
    [] sep.kind = "Custom"         -> <<"\n", "\n">> \o sep.s \o <<"\n", "\n">>

\* --------------------------------------------------------------------------
\* Assembly (src/convert.rs)
\* --------------------------------------------------------------------------

YamlField(name, v) ==
  IF v = None THEN <<>> ELSE name \o <<":", " ", "\"">> \o v[1] \o <<"\"", "\n">>

format_yaml_front_matter(meta) ==
  <<"-", "-", "-", "\n">>
    \o YamlField(<<"t", "i", "t", "l", "e">>, meta.title)
    \o YamlField(<<"a", "u", "t", "h", "o", "r">>, meta.author)
    \o YamlField(<<"s", "u", "b", "j", "e", "c", "t">>, meta.subject)
    \o YamlField(<<"c", "r", "e", "a", "t", "o", "r">>, meta.creator)
    \o YamlField(<<"p", "r", "o", "d", "u", "c", "e", "r">>, meta.producer)
    \o <<"p", "a", "g", "e", "s", ":", " ">> \o Decimal(meta.page_count) \o <<"\n">>
    \o (IF meta.pdf_version # <<>>
        THEN YamlField(<<"p", "d", "f", "_", "v", "e", "r", "s", "i", "o", "n">>, Some(meta.pdf_version)) ELSE <<>>)
    \o <<"-", "-", "-", "\n", "\n">>

\* assemble_document joining every page, the failed ones with their empty markdown
assemble_all_pages(pages, sep, include_metadata, meta) ==
  LET front == IF include_metadata THEN <<format_yaml_front_matter(meta)>> ELSE <<>>
      parts == [k \in 1..(2 * Len(pages)) |->
                  IF k % 2 = 0 THEN pages[k \div 2].markdown
                  ELSE IF k = 1 THEN <<>>
                  ELSE PageSeparator_render(sep, pages[(k + 1) \div 2].page_num)]
  IN  Concat(front \o parts)

\* the parts assemble_document pushes for the successful pages
RECURSIVE PageParts(_, _, _)
PageParts(successful_pages, i, sep) ==
  IF i > Len(successful_pages) THEN <<>>
  ELSE (IF i > 1 THEN <<PageSeparator_render(sep, successful_pages[i].page_num)>> ELSE <<>>)
         \o <<successful_pages[i].markdown>>
         \o PageParts(successful_pages, i + 1, sep)

assemble_document(pages, sep, include_metadata, meta) ==
  LET front            == IF include_metadata THEN <<format_yaml_front_matter(meta)>> ELSE <<>>
      successful_pages == SelectSeq(pages, LAMBDA p : p.error = None)
  IN  Concat(front \o PageParts(successful_pages, 1, sep))

\* the pages left in completion order
completion_order(ps) == ps

\* Vec::sort_by_key(|p| p.page_num): a stable insertion by page number
RECURSIVE InsertByPageNum(_, _)
InsertByPageNum(sorted, p) ==
  IF sorted = <<>> THEN <<p>>
  ELSE IF sorted[Len(sorted)].page_num <= p.page_num THEN Append(sorted, p)
  ELSE Append(InsertByPageNum(SubSeq(sorted, 1, Len(sorted) - 1), p), sorted[Len(sorted)])

RECURSIVE sort_by_page_num(_)
sort_by_page_num(ps) ==
  IF ps = <<>> THEN <<>>
  ELSE InsertByPageNum(sort_by_page_num(SubSeq(ps, 1, Len(ps) - 1)), ps[Len(ps)])

\* --------------------------------------------------------------------------
\* VLM caller (src/pipeline/llm.rs)
\* --------------------------------------------------------------------------

\* `as u8`: PageResult.retries and LlmFailed.retries are u8, max_retries is u32
U8Modulus == 256

AsU8(n) == n % U8Modulus

\* width of retry_backoff_ms and of the backoff (u64)
U64Bits == 64

\* 2u64.pow(exp): overflows from exp = 64 on, and then wraps to 0
Pow2U64(exp) ==
  IF exp >= U64Bits THEN [overflow |-> TRUE, m |-> 0, e |-> 0]
  ELSE [overflow |-> FALSE, m |-> 1, e |-> exp]

\* config.retry_backoff_ms * 2u64.pow(attempt - 1), for retry_backoff_ms < 2^31:
\* whether either operation overflows, and the wrapped product, kept as m * 2^e
\* (a product of fewer than 2^(31+33) cannot overflow)
BackoffMs(retry_backoff_ms, attempt) ==
  LET p    == Pow2U64(attempt - 1)
      bits == U64Bits - p.e
  IN  IF p.overflow THEN [overflow |-> TRUE, m |-> 0, e |-> 0]
      ELSE IF bits <= 30
           THEN [overflow |-> retry_backoff_ms >= 2^bits,
                 m |-> retry_backoff_ms % (2^bits), e |-> p.e]
           ELSE [overflow |-> FALSE, m |-> retry_backoff_ms, e |-> p.e]

\* the format-continuity message of the request, None when it has none
FormatContext(cfg, prior_page) ==
  IF cfg.maintain_format /\ prior_page # None /\ prior_page[1] # <<>> THEN prior_page ELSE None

\* process_page up to its first provider.chat(..).await (attempt 0 has no sleep)
process_page_begin(page_num, prior_page, cfg) ==
  [ page_num |-> page_num,
    prior_page |-> prior_page,
    context  |-> FormatContext(cfg, prior_page),
    attempt  |-> 0,
    pc       |-> "chat",
    last_err |-> None,
    backoff  |-> None,
    waited   |-> 0 ]

\* a PageResult that counts the provider calls made instead of the retries
chat_ok_counting_calls(t, response) ==
  [ page_num      |-> t.page_num,
    markdown      |-> response.content,
    input_tokens  |-> response.prompt_tokens,
    output_tokens |-> response.completion_tokens,
    retries       |-> AsU8(t.attempt + 1),
    error         |-> None ]

\* provider.chat returned Ok(response): the PageResult process_page returns
chat_ok(t, response) ==
  [ page_num      |-> t.page_num,
    markdown      |-> response.content,
    input_tokens  |-> response.prompt_tokens,
    output_tokens |-> response.completion_tokens,
    retries       |-> AsU8(t.attempt),
    error         |-> None ]

\* the PageResult after the loop: all retries exhausted
exhausted(t, cfg) ==
  [ page_num      |-> t.page_num,
    markdown      |-> <<>>,
    input_tokens  |-> 0,
    output_tokens |-> 0,
    retries       |-> AsU8(cfg.max_retries),
    error         |-> Some([ kind    |-> "LlmFailed",
                        page    |-> t.page_num,
                        retries |-> AsU8(cfg.max_retries),
                        detail  |-> IF t.last_err = None
                                    THEN <<"U", "n", "k", "n", "o", "w", "n", " ", "e", "r", "r", "o", "r">>
                                    ELSE t.last_err[1] ]) ]

\* provider.chat returned Err(e): record it, then the next iteration of
\* `for attempt in 0..=config.max_retries` (its backoff, computed before the
\* sleep, panics on overflow in a build with overflow checks) or the end of the loop
chat_err(t, e, cfg, checks) ==
  LET t1 == [t EXCEPT !.last_err = Some(e)]
  IN  IF t.attempt < cfg.max_retries
      THEN LET b == BackoffMs(cfg.retry_backoff_ms, t.attempt + 1)
           IN  IF b.overflow /\ checks THEN [kind |-> "panic"]
               ELSE [kind |-> "retry",
                     task |-> [t1 EXCEPT !.attempt = t.attempt + 1,
                                         !.pc = "sleep",
                                         !.backoff = Some([m |-> b.m, e |-> b.e])]]
      ELSE [kind |-> "return", result |-> exhausted(t1, cfg)]

\* sleep(Duration::from_millis(backoff)).await is over: the next provider.chat
sleep_done(t) == [t EXCEPT !.pc = "chat", !.waited = 0]

\* --------------------------------------------------------------------------
\* Bounds and inputs
\* --------------------------------------------------------------------------

\* the document has at most MaxPages pages
MaxPages == 4

\* the values of config.concurrency and of config.max_retries in the pipeline's
\* specification
ConcurrencyChoices == {1, 2}

RetryChoices == {0, 1}

\* the selections of the pipeline's specification: all pages, a range that
\* starts after page 1 and ends beyond the document, a set given out of order
\* with a duplicate and a gap
Selections ==
  { [kind |-> "All"],
    [kind |-> "Range", start |-> 2, end |-> MaxPages + 1],
    [kind |-> "Set", pages |-> <<3, 1, 3>>] }

\* ConversionConfig::default() values that the model keeps fixed
DefaultRetryBackoffMs == 500

DefaultApiTimeoutSecs == 60

Configs ==
  [ maintain_format  : BOOLEAN,
    concurrency      : ConcurrencyChoices,
    max_retries      : RetryChoices,
    retry_backoff_ms : {DefaultRetryBackoffMs},
    api_timeout_secs : {DefaultApiTimeoutSecs},
    pages            : Selections,
    password         : {None},
    progress_callback : {FALSE} ]

\* the page separators assemble_document is checked with
Separators ==
  { [kind |-> "None"], [kind |-> "HorizontalRule"], [kind |-> "Comment"],
    [kind |-> "Custom", s |-> <<"*">>] }

\* what extract_metadata returns for a document of total pages
Metadata(total) ==
  [ title |-> Some(<<"T">>), author |-> None, subject |-> None, creator |-> None,
    producer |-> None, page_count |-> total, pdf_version |-> <<"1", ".", "7">> ]

\* what the provider answers for a page: text that names the page and that
\* the post-processor has to clean (a fence, a carriage return, a table
\* without separator row, a run of blank lines)
RawContent(page_num) ==
  LET n == Decimal(page_num)
  IN  CASE page_num % 4 = 1 -> <<BT, BT, BT, "\n", "#", " ">> \o n \o <<"\n", BT, BT, BT>>
        [] page_num % 4 = 2 -> n \o <<" ", "\r", "\n">>
        [] page_num % 4 = 3 -> <<"|", " ">> \o n \o <<" ", "|", "\n", "|", " ", "x", " ", "|">>
        [] OTHER            -> n \o <<"\n", "\n", "\n", "\n", "\n", "z">>

Responses(page_num) ==
  { [ content           |-> RawContent(page_num),
      prompt_tokens     |-> 10 + page_num,
      completion_tokens |-> page_num ] }

\* provider errors as format!("{}", e) gives them: a transient and a permanent one
TransientError == <<"4", "2", "9">>

PermanentError == <<"4", "0", "1">>

\* format!("{:?}", e) of the errors pdfium gives when it cannot open the file:
\* a password-related one and another
PasswordError == <<"P", "a", "s", "s", "w", "o", "r", "d", "E", "r", "r", "o", "r">>

FormatError == <<"F", "o", "r", "m", "a", "t", "E", "r", "r", "o", "r">>

\* what opening the PDF can give: no error, or one of the two
OpenOutcomes == {None, Some(PasswordError), Some(FormatError)}

\* map_pdf_open_error: the fatal error for a failed open
map_pdf_open_error(err_str, has_password) ==
  IF Contains(err_str, <<"P", "a", "s", "s", "w", "o", "r", "d">>)
       \/ Contains(err_str, <<"p", "a", "s", "s", "w", "o", "r", "d">>)
  THEN IF has_password THEN [kind |-> "WrongPassword"] ELSE [kind |-> "PasswordRequired"]
  ELSE [kind |-> "CorruptPdf", detail |-> err_str]

\* extract_metadata_blocking: every failed open is CorruptPdf
extract_metadata_error(err_str) == [kind |-> "CorruptPdf", detail |-> err_str]

\* --------------------------------------------------------------------------
\* State
\* --------------------------------------------------------------------------

VARIABLES
  cfg,             \* the ConversionConfig
  provider,        \* the provider: the errors its chat may return
  api,             \* the entry point called: convert or convert_stream
  pdf,             \* the input file: what opening it gives
  fs,              \* the files at the output path and at its temporary sibling
  total_pages,     \* metadata.page_count
  overflow_checks, \* whether the build checks arithmetic overflow (debug) or wraps
  phase,           \* where convert is: start, opening, running, done, panicked
  page_indices,    \* config.pages.to_indices(total_pages)
  prod,            \* the producer: pc, position in page_indices, encoded page it holds,
                   \* the capacity its channel was asked for, its ready signal, what it sent
  chan,            \* the bounded mpsc channel's buffer
  rx_alive,        \* the channel's receiver exists
  tasks,           \* the process_page calls in flight
  results,         \* the PageResults, in completion order
  prior_markdown,  \* process_sequential_lazy's prior_markdown
  out,             \* what convert returned, Pending before
  provider_log,    \* per page: provider calls made and the last error returned
  events           \* the calls the progress callback has received, in order

vars == << cfg, provider, api, pdf, fs, total_pages, overflow_checks, phase, page_indices, prod, chan,
           rx_alive, tasks, results, prior_markdown, out, provider_log, events >>

\* mpsc::channel(channel_capacity.max(1))
Capacity == Max(prod.channel_capacity, 1)

\* no output file is involved
NoFiles == [path |-> None, tmp |-> None]

InitCommon ==
  /\ phase = "start"
  /\ fs = NoFiles
  /\ page_indices = <<>>
  /\ prod = [pc |-> "idle", pos |-> 1, held |-> None, dropped |-> {},
             late_renders |-> 0, late_encodes |-> 0,
             channel_capacity |-> 0, ready |-> None, sent |-> <<>>]
  /\ chan = <<>>
  /\ rx_alive = FALSE
  /\ tasks = {}
  /\ results = <<>>
  /\ prior_markdown = None
  /\ out = [kind |-> "Pending"]
  /\ provider_log = <<>>
  /\ events = <<>>

Init ==
  /\ cfg \in Configs
  /\ provider = [errors |-> {TransientError}]
  /\ api = "convert"
  /\ pdf = [open_error |-> None]
  /\ total_pages \in 0..MaxPages
  /\ overflow_checks = FALSE
  /\ InitCommon

\* --------------------------------------------------------------------------
\* convert, steps 8 to 10 (src/convert.rs)
\* --------------------------------------------------------------------------

RECURSIVE SumOver(_, _)
SumOver(ps, field) ==
  IF ps = <<>> THEN 0 ELSE Head(ps)[field] + SumOver(Tail(ps), field)

\* Display of PageError::LlmFailed
PageErrorText(e) ==
  <<"P", "a", "g", "e", " ">> \o Decimal(e.page)
    \o <<":", " ", "L", "L", "M", " ", "c", "a", "l", "l", " ", "f", "a", "i", "l", "e", "d", " ", "a", "f", "t", "e", "r", " ">> \o Decimal(e.retries)
    \o <<" ", "r", "e", "t", "r", "i", "e", "s", ":", " ">> \o e.detail

\* step 8: clean_markdown on the pages without error, then the sort by page number
post_processed(page_results) ==
  sort_by_page_num([i \in 1..Len(page_results) |->
     IF page_results[i].error = None
     THEN [page_results[i] EXCEPT !.markdown = clean_markdown(page_results[i].markdown)]
     ELSE page_results[i]])

\* the counts with skipped taken against the document's pages, not the selection
compute_stats_of_document(pages, indices, total) ==
  [ total_pages         |-> total,
    processed_pages     |-> Len(SelectSeq(pages, LAMBDA p : p.error = None)),
    failed_pages        |-> Len(SelectSeq(pages, LAMBDA p : p.error # None)),
    skipped_pages       |-> SaturatingSub(total, Len(pages)),
    total_input_tokens  |-> SumOver(pages, "input_tokens"),
    total_output_tokens |-> SumOver(pages, "output_tokens") ]

\* step 10: the counts
compute_stats(pages, indices, total) ==
  [ total_pages         |-> total,
    processed_pages     |-> Len(SelectSeq(pages, LAMBDA p : p.error = None)),
    failed_pages        |-> Len(SelectSeq(pages, LAMBDA p : p.error # None)),
    skipped_pages       |-> SaturatingSub(Len(indices), Len(pages)),
    total_input_tokens  |-> SumOver(pages, "input_tokens"),
    total_output_tokens |-> SumOver(pages, "output_tokens") ]

\* a convert for which any failed page is fatal
convert_finish_strict(pages, sep, include_metadata) ==
  LET meta     == Metadata(total_pages)
      markdown == assemble_document(pages, sep, include_metadata, meta)
      stats    == compute_stats(pages, page_indices, total_pages)
      failures == SelectSeq(pages, LAMBDA p : p.error # None)
  IN  IF stats.processed_pages = 0 \/ stats.failed_pages > 0
      THEN [ kind        |-> "AllPagesFailed",
             total       |-> Len(pages),
             retries     |-> cfg.max_retries,
             first_error |-> IF failures = <<>> THEN <<"U", "n", "k", "n", "o", "w", "n", " ", "e", "r", "r", "o", "r">>
                             ELSE PageErrorText(failures[1].error[1]) ]
      ELSE [ kind             |-> "Ok",
             markdown         |-> markdown,
             pages            |-> pages,
             metadata         |-> meta,
             stats            |-> stats,
             page_separator   |-> sep,
             include_metadata |-> include_metadata ]

\* a convert whose AllPagesFailed counts the selected pages instead of the
\* PageResults
convert_finish_counting_selection(pages, sep, include_metadata) ==
  LET meta     == Metadata(total_pages)
      markdown == assemble_document(pages, sep, include_metadata, meta)
      stats    == compute_stats(pages, page_indices, total_pages)
      failures == SelectSeq(pages, LAMBDA p : p.error # None)
  IN  IF stats.processed_pages = 0
      THEN [ kind        |-> "AllPagesFailed",
             total       |-> Len(page_indices),
             retries     |-> cfg.max_retries,
             first_error |-> IF failures = <<>> THEN <<"U", "n", "k", "n", "o", "w", "n", " ", "e", "r", "r", "o", "r">>
                             ELSE PageErrorText(failures[1].error[1]) ]
      ELSE [ kind             |-> "Ok",
             markdown         |-> markdown,
             pages            |-> pages,
             metadata         |-> meta,
             stats            |-> stats,
             page_separator   |-> sep,
             include_metadata |-> include_metadata ]

\* steps 9 and 10: what convert returns for the post-processed, sorted pages
convert_finish(pages, sep, include_metadata) ==
  LET meta     == Metadata(total_pages)
      markdown == assemble_document(pages, sep, include_metadata, meta)
      stats    == compute_stats(pages, page_indices, total_pages)
      failures == SelectSeq(pages, LAMBDA p : p.error # None)
  IN  IF stats.processed_pages = 0
      THEN [ kind        |-> "AllPagesFailed",
             total       |-> Len(pages),
             retries     |-> cfg.max_retries,
             first_error |-> IF failures = <<>> THEN <<"U", "n", "k", "n", "o", "w", "n", " ", "e", "r", "r", "o", "r">>
                             ELSE PageErrorText(failures[1].error[1]) ]
      ELSE [ kind             |-> "Ok",
             markdown         |-> markdown,
             pages            |-> pages,
             metadata         |-> meta,
             stats            |-> stats,
             page_separator   |-> sep,
             include_metadata |-> include_metadata ]

\* --------------------------------------------------------------------------
\* Actions
\* --------------------------------------------------------------------------

LogOf(p) ==
  IF p \in DOMAIN provider_log THEN provider_log[p] ELSE [calls |-> 0, last_err |-> None]

LogWith(p, entry) ==
  [q \in DOMAIN provider_log \cup {p} |-> IF q = p THEN entry ELSE provider_log[q]]

\* the progress callback, when one is configured, receives the call
Notify(call) == IF cfg.progress_callback THEN Append(events, call) ELSE events

\* the calls convert and its schedulers make on the callback
on_conversion_start(total) == [call |-> "on_conversion_start", total_pages |-> total]

on_page_start(page_num, total) ==
  [call |-> "on_page_start", page_num |-> page_num, total_pages |-> total]

\* a callback call that reports every returned page as complete
on_page_always_complete(result, total) ==
  [call |-> "on_page_complete", page_num |-> result.page_num, total_pages |-> total,
   markdown_len |-> StrBytes(result.markdown)]

\* match &result.error: on_page_complete or on_page_error
on_page_returned(result, total) ==
  IF result.error = None
  THEN [call |-> "on_page_complete", page_num |-> result.page_num, total_pages |-> total,
        markdown_len |-> StrBytes(result.markdown)]
  ELSE [call |-> "on_page_error", page_num |-> result.page_num, total_pages |-> total,
        error |-> PageErrorText(result.error[1])]

on_conversion_complete(total, success_count) ==
  [call |-> "on_conversion_complete", total_pages |-> total, success_count |-> success_count]

\* a convert that announces the conversion before it looks at the selection
StartAnnouncingFirst ==
  /\ api \in {"convert", "convert_to_file"}
  /\ phase = "start"
  /\ IF pdf.open_error # None
     THEN /\ out' = extract_metadata_error(pdf.open_error[1])
          /\ phase' = "done"
          /\ UNCHANGED <<page_indices, prod, rx_alive, events>>
     ELSE LET indices == to_indices(cfg.pages, total_pages)
          IN  /\ events' = Notify(on_conversion_start(Len(indices)))
              /\ IF indices = <<>>
                 THEN /\ out' = [kind |-> "PageOutOfRange", page |-> 0, total |-> total_pages]
                      /\ phase' = "done"
                      /\ UNCHANGED <<page_indices, prod, rx_alive>>
                 ELSE /\ page_indices' = indices
                      /\ phase' = "opening"
                      /\ prod' = [prod EXCEPT !.pc = "open", !.channel_capacity = cfg.concurrency]
                      /\ rx_alive' = TRUE
                      /\ out' = out
  /\ UNCHANGED <<cfg, provider, api, pdf, fs, total_pages, overflow_checks, chan, tasks, results,
                 prior_markdown, provider_log>>

\* convert, steps 3 and 4, on_conversion_start and the spawn of the producer
\* with config.concurrency as the channel's capacity: a file extract_metadata
\* cannot open and an empty selection are fatal
Start ==
  /\ api \in {"convert", "convert_to_file"}
  /\ phase = "start"
  /\ IF pdf.open_error # None
     THEN /\ out' = extract_metadata_error(pdf.open_error[1])
          /\ phase' = "done"
          /\ UNCHANGED <<page_indices, prod, rx_alive, events>>
     ELSE LET indices == to_indices(cfg.pages, total_pages)
          IN  IF indices = <<>>
              THEN /\ out' = [kind |-> "PageOutOfRange", page |-> 0, total |-> total_pages]
                   /\ phase' = "done"
                   /\ UNCHANGED <<page_indices, prod, rx_alive, events>>
              ELSE /\ page_indices' = indices
                   /\ events' = Notify(on_conversion_start(Len(indices)))
                   /\ phase' = "opening"
                   /\ prod' = [prod EXCEPT !.pc = "open", !.channel_capacity = cfg.concurrency]
                   /\ rx_alive' = TRUE
                   /\ out' = out
  /\ UNCHANGED <<cfg, provider, api, pdf, fs, total_pages, overflow_checks, chan, tasks, results,
                 prior_markdown, provider_log>>

\* Debug text of the error when the pdfium library cannot be loaded
LibraryUnavailable == <<"L", "o", "a", "d", "L", "i", "b", "r", "a", "r", "y", "E", "r", "r", "o", "r">>

\* what the producer's get_pdfium and load_pdf_from_file can give: convert and
\* convert_stream have loaded the library in extract_metadata by then, a
\* direct caller of spawn_lazy_render_encode has not
ProducerOpenOutcomes ==
  IF api = "spawn_lazy_render_encode"
  THEN OpenOutcomes \cup {Some(LibraryUnavailable)}
  ELSE OpenOutcomes

\* what lazy_render_encode_blocking puts into ready_tx
ready_signal(r, has_password) ==
  IF r = None THEN [kind |-> "Ok"]
  ELSE IF r = Some(LibraryUnavailable) THEN [kind |-> "Internal"]
  ELSE map_pdf_open_error(r[1], has_password)

\* a producer that signals only a failure and starts on the pages unannounced
ProducerOpenSilently ==
  /\ prod.pc = "open"
  /\ \E r \in ProducerOpenOutcomes :
       IF r = None
       THEN prod' = [prod EXCEPT !.pc = IF page_indices = <<>> THEN "done" ELSE "render"]
       ELSE prod' = [prod EXCEPT !.pc = "done",
                                 !.ready = Some(ready_signal(r, cfg.password # None))]
  /\ UNCHANGED <<cfg, provider, api, pdf, fs, total_pages, overflow_checks, phase, page_indices, chan,
                 rx_alive, tasks, results, prior_markdown, out, provider_log, events>>

\* lazy_render_encode_blocking up to its loop: it loads the library, opens the
\* PDF and sends the ready signal, Ok or the fatal error, on which it returns
ProducerOpen ==
  /\ prod.pc = "open"
  /\ \E r \in ProducerOpenOutcomes :
       IF r = None
       THEN prod' = [prod EXCEPT !.pc = IF page_indices = <<>> THEN "done" ELSE "render",
                                 !.ready = Some(ready_signal(r, cfg.password # None))]
       ELSE prod' = [prod EXCEPT !.pc = "done",
                                 !.ready = Some(ready_signal(r, cfg.password # None))]
  /\ UNCHANGED <<cfg, provider, api, pdf, fs, total_pages, overflow_checks, phase, page_indices, chan,
                 rx_alive, tasks, results, prior_markdown, out, provider_log, events>>

\* spawn_lazy_render_encode's ready_rx.await resolves: Ok(rx) to the caller,
\* or the fatal error, with which the receiver is dropped
SpawnReturn ==
  /\ phase = "opening"
  /\ prod.ready # None
  /\ IF prod.ready[1].kind = "Ok"
     THEN /\ phase' = "running"
          /\ UNCHANGED <<out, rx_alive>>
     ELSE /\ phase' = "done"
          /\ out' = prod.ready[1]
          /\ rx_alive' = FALSE
  /\ UNCHANGED <<cfg, provider, api, pdf, fs, total_pages, overflow_checks, page_indices, prod, chan,
                 tasks, results, prior_markdown, provider_log, events>>

\* the producer's loop moves to the next selected index, or returns (tx dropped)
Advance(p) ==
  IF p.pos >= Len(page_indices)
  THEN [p EXCEPT !.pc = "done", !.held = None]
  ELSE [p EXCEPT !.pc = "render", !.pos = p.pos + 1, !.held = None]

\* a producer that returns at the first page it cannot render or encode
ProducerRenderStoppingAtFailure ==
  /\ prod.pc = "render"
  /\ LET idx == page_indices[prod.pos]
     IN  IF idx >= total_pages
         THEN prod' = Advance(prod)
         ELSE \E r \in {"ok", "render_failed", "encode_failed"} :
                IF r = "ok"
                THEN prod' = [prod EXCEPT !.pc = "send", !.held = Some([page_index |-> idx])]
                ELSE prod' = [prod EXCEPT !.pc = "done", !.dropped = prod.dropped \cup {idx}]
  /\ UNCHANGED <<cfg, provider, api, pdf, fs, total_pages, overflow_checks, phase, page_indices, chan,
                 rx_alive, tasks, results, prior_markdown, out, provider_log, events>>

\* a producer that renders whatever index it is given
ProducerRenderUnchecked ==
  /\ prod.pc = "render"
  /\ LET idx == page_indices[prod.pos]
     IN  \E r \in {"ok", "render_failed", "encode_failed"} :
           IF r = "ok"
           THEN prod' = [prod EXCEPT !.pc = "send", !.held = Some([page_index |-> idx])]
           ELSE prod' = Advance([prod EXCEPT !.dropped = prod.dropped \cup {idx}])
  /\ UNCHANGED <<cfg, provider, api, pdf, fs, total_pages, overflow_checks, phase, page_indices, chan,
                 rx_alive, tasks, results, prior_markdown, out, provider_log, events>>

\* one iteration up to the send: range check, render, encode
ProducerRender ==
  /\ prod.pc = "render"
  /\ LET idx == page_indices[prod.pos]
     IN  IF idx >= total_pages
         THEN prod' = Advance(prod)
         ELSE \E r \in {"ok", "render_failed", "encode_failed"} :
                LET late == IF rx_alive THEN 0 ELSE 1
                    p1   == [prod EXCEPT
                               !.late_renders = @ + (IF r = "render_failed" THEN 0 ELSE late),
                               !.late_encodes = @ + (IF r = "ok" THEN late ELSE 0)]
                IN  IF r = "ok"
                    THEN prod' = [p1 EXCEPT !.pc = "send", !.held = Some([page_index |-> idx])]
                    ELSE prod' = Advance([p1 EXCEPT !.dropped = prod.dropped \cup {idx}])
  /\ UNCHANGED <<cfg, provider, api, pdf, fs, total_pages, overflow_checks, phase, page_indices, chan,
                 rx_alive, tasks, results, prior_markdown, out, provider_log, events>>

\* a send into a channel without capacity limit
ProducerSendUnbounded ==
  /\ prod.pc = "send"
  /\ IF rx_alive
     THEN /\ chan' = Append(chan, prod.held[1])
          /\ prod' = [Advance(prod) EXCEPT !.sent = Append(@, prod.held[1].page_index)]
     ELSE /\ prod' = [prod EXCEPT !.pc = "done", !.held = None]
          /\ chan' = chan
  /\ UNCHANGED <<cfg, provider, api, pdf, fs, total_pages, overflow_checks, phase, page_indices,
                 rx_alive, tasks, results, prior_markdown, out, provider_log, events>>

\* a send whose error is ignored: the loop goes on to the next page
ProducerSendIgnoringClosed ==
  /\ prod.pc = "send"
  /\ IF rx_alive
     THEN /\ Len(chan) < Capacity
          /\ chan' = Append(chan, prod.held[1])
          /\ prod' = [Advance(prod) EXCEPT !.sent = Append(@, prod.held[1].page_index)]
     ELSE /\ prod' = Advance(prod)
          /\ chan' = chan
  /\ UNCHANGED <<cfg, provider, api, pdf, fs, total_pages, overflow_checks, phase, page_indices,
                 rx_alive, tasks, results, prior_markdown, out, provider_log, events>>

\* a send that gives the page up when the channel is full
ProducerSendDroppingWhenFull ==
  /\ prod.pc = "send"
  /\ IF rx_alive
     THEN /\ chan' = IF Len(chan) < Capacity THEN Append(chan, prod.held[1]) ELSE chan
          /\ prod' = [Advance(prod) EXCEPT !.sent = Append(@, prod.held[1].page_index)]
     ELSE /\ prod' = [prod EXCEPT !.pc = "done", !.held = None]
          /\ chan' = chan
  /\ UNCHANGED <<cfg, provider, api, pdf, fs, total_pages, overflow_checks, phase, page_indices,
                 rx_alive, tasks, results, prior_markdown, out, provider_log, events>>

\* tx.blocking_send: waits while the channel is full, fails once the receiver is gone
ProducerSend ==
  /\ prod.pc = "send"
  /\ IF rx_alive
     THEN /\ Len(chan) < Capacity
          /\ chan' = Append(chan, prod.held[1])
          /\ prod' = [Advance(prod) EXCEPT !.sent = Append(@, prod.held[1].page_index)]
     ELSE /\ prod' = [prod EXCEPT !.pc = "done", !.held = None]
          /\ chan' = chan
  /\ UNCHANGED <<cfg, provider, api, pdf, fs, total_pages, overflow_checks, phase, page_indices,
                 rx_alive, tasks, results, prior_markdown, out, provider_log, events>>

\* the scheduler takes a page from the channel and starts its process_page,
\* which begins with on_page_start
StartPage(prior) ==
  /\ phase = "running"
  /\ chan # <<>>
  /\ LET page_num == Head(chan).page_index + 1
     IN  /\ tasks' = tasks \cup {process_page_begin(page_num, prior, cfg)}
         /\ provider_log' = LogWith(page_num, [calls |-> 1, last_err |-> None])
         /\ events' = Notify(on_page_start(page_num, Len(page_indices)))
  /\ chan' = Tail(chan)
  /\ UNCHANGED <<cfg, provider, api, pdf, fs, total_pages, overflow_checks, phase, page_indices, prod,
                 rx_alive, results, prior_markdown, out>>

\* a scheduler that starts every page it can receive
ConcurrentPullUnlimited ==
  /\ ~cfg.maintain_format
  /\ StartPage(None)

\* process_concurrent_lazy: buffer_unordered(concurrency) polls the channel for
\* another page only while fewer than concurrency futures are in flight
ConcurrentPull ==
  /\ ~cfg.maintain_format
  /\ Cardinality(tasks) < cfg.concurrency
  /\ StartPage(None)

\* a sequential scheduler that receives the next page while a call is in flight
SequentialRecvEager ==
  /\ cfg.maintain_format
  /\ StartPage(prior_markdown)

\* a sequential scheduler that receives the next page while the call for the
\* current one sleeps between two attempts
SequentialRecvDuringBackoff ==
  /\ cfg.maintain_format
  /\ \A t \in tasks : t.pc = "sleep"
  /\ StartPage(prior_markdown)

\* a sequential scheduler that lets the producer finish before it receives
SequentialRecvAfterProducer ==
  /\ cfg.maintain_format
  /\ tasks = {}
  /\ prod.pc = "done"
  /\ StartPage(prior_markdown)

\* process_sequential_lazy: rx.recv().await, then process_page with prior_markdown
SequentialRecv ==
  /\ cfg.maintain_format
  /\ tasks = {}
  /\ StartPage(prior_markdown)

\* a scheduler that keeps only the results without error
CollectSuccessful(t, result) ==
  /\ tasks' = tasks \ {t}
  /\ events' = Notify(on_page_returned(result, Len(page_indices)))
  /\ results' = IF result.error = None THEN Append(results, result) ELSE results
  /\ prior_markdown' = IF cfg.maintain_format /\ result.error = None
                       THEN Some(result.markdown) ELSE prior_markdown

\* a sequential scheduler that rotates prior_markdown after every page, the
\* failed ones with their empty markdown included
CollectRotatingAlways(t, result) ==
  /\ tasks' = tasks \ {t}
  /\ events' = Notify(on_page_returned(result, Len(page_indices)))
  /\ results' = Append(results, result)
  /\ prior_markdown' = IF cfg.maintain_format THEN Some(result.markdown) ELSE prior_markdown

\* process_page returned: on_page_complete or on_page_error, then the
\* scheduler keeps the result; the sequential one also rotates prior_markdown
\* when the page has no error
Collect(t, result) ==
  /\ tasks' = tasks \ {t}
  /\ events' = Notify(on_page_returned(result, Len(page_indices)))
  /\ results' = Append(results, result)
  /\ prior_markdown' = IF cfg.maintain_format /\ result.error = None
                       THEN Some(result.markdown) ELSE prior_markdown

\* the provider answers a call in flight with a response
ProviderOk ==
  /\ phase = "running"
  /\ \E t \in tasks :
       /\ t.pc = "chat"
       /\ \E response \in Responses(t.page_num) : Collect(t, chat_ok(t, response))
  /\ UNCHANGED <<cfg, provider, api, pdf, fs, total_pages, overflow_checks, phase, page_indices, prod,
                 chan, rx_alive, out, provider_log>>

\* the provider answers a call in flight with an error
ProviderErr ==
  /\ phase = "running"
  /\ \E t \in tasks :
       /\ t.pc = "chat"
       /\ \E e \in provider.errors :
            LET r == chat_err(t, e, cfg, overflow_checks)
            IN  /\ provider_log' = LogWith(t.page_num, [LogOf(t.page_num) EXCEPT !.last_err = Some(e)])
                /\ CASE r.kind = "retry" ->
                          /\ tasks' = (tasks \ {t}) \cup {r.task}
                          /\ UNCHANGED <<results, prior_markdown, phase, rx_alive, events>>
                     [] r.kind = "return" ->
                          /\ Collect(t, r.result)
                          /\ UNCHANGED <<phase, rx_alive>>
                     [] r.kind = "panic" ->
                          \* the panic unwinds convert: its futures and the receiver are dropped
                          /\ phase' = "panicked"
                          /\ tasks' = {}
                          /\ rx_alive' = FALSE
                          /\ UNCHANGED <<results, prior_markdown, events>>
  /\ UNCHANGED <<cfg, provider, api, pdf, fs, total_pages, overflow_checks, page_indices, prod, chan, out>>

\* a backoff sleep ends and the next provider call is made
SleepDone ==
  /\ phase \in {"running", "streaming"}
  /\ \E t \in tasks :
       /\ t.pc = "sleep"
       /\ tasks' = (tasks \ {t}) \cup {sleep_done(t)}
       /\ provider_log' = LogWith(t.page_num,
                            [LogOf(t.page_num) EXCEPT !.calls = LogOf(t.page_num).calls + 1])
  /\ UNCHANGED <<cfg, provider, api, pdf, fs, total_pages, overflow_checks, phase, page_indices, prod,
                 chan, rx_alive, results, prior_markdown, out, events>>

\* a second passes while a provider call is in flight (counted up to one
\* second past config.api_timeout_secs)
Tick ==
  /\ phase = "running"
  /\ \E t \in tasks :
       /\ t.pc = "chat"
       /\ t.waited <= cfg.api_timeout_secs
       /\ tasks' = (tasks \ {t}) \cup {[t EXCEPT !.waited = t.waited + 1]}
  /\ UNCHANGED <<cfg, provider, api, pdf, fs, total_pages, overflow_checks, phase, page_indices, prod,
                 chan, rx_alive, results, prior_markdown, out, provider_log, events>>

\* the channel is closed and drained and no call is in flight: the scheduler
\* returns and convert runs steps 8 to 10, with on_conversion_complete before
\* it returns Ok. config.page_separator and config.include_metadata are read
\* only here, by assemble_document, and are drawn here.
Finish ==
  /\ phase = "running"
  /\ prod.pc = "done"
  /\ chan = <<>>
  /\ tasks = {}
  /\ LET pages == post_processed(results)
     IN  \E sep \in Separators, include_metadata \in BOOLEAN :
           LET o == convert_finish(pages, sep, include_metadata)
           IN  /\ out' = o
               /\ events' = IF o.kind = "Ok"
                            THEN Notify(on_conversion_complete(Len(page_indices),
                                                               o.stats.processed_pages))
                            ELSE events
  /\ phase' = "done"
  /\ rx_alive' = FALSE
  /\ UNCHANGED <<cfg, provider, api, pdf, fs, total_pages, overflow_checks, page_indices, prod, chan,
                 tasks, results, prior_markdown, provider_log>>

Next ==
  \/ Start
  \/ ProducerOpen
  \/ SpawnReturn
  \/ ProducerRender
  \/ ProducerSend
  \/ ConcurrentPull
  \/ SequentialRecv
  \/ ProviderOk
  \/ ProviderErr
  \/ SleepDone
  \/ Finish

Spec == Init /\ [][Next]_vars

\* --------------------------------------------------------------------------
\* One page under the clock: process_page with every width of max_retries that
\* matters to the u8 retries field and to the u64 backoff, both kinds of
\* provider error, both kinds of build, and a short api_timeout_secs
\* --------------------------------------------------------------------------

\* config.api_timeout_secs in this specification
PageApiTimeoutSecs == 1

\* config.max_retries: none, one, one past the width of the backoff, and the
\* first value the retries field cannot hold
PageRetryChoices == {0, 1, U64Bits + 1, U8Modulus}

PageConfigs ==
  [ maintain_format  : BOOLEAN,
    concurrency      : {1},
    max_retries      : PageRetryChoices,
    retry_backoff_ms : {DefaultRetryBackoffMs},
    api_timeout_secs : {PageApiTimeoutSecs},
    pages            : {[kind |-> "All"]},
    password         : {None},
    progress_callback : {FALSE} ]

InitPage ==
  /\ cfg \in PageConfigs
  /\ provider = [errors |-> {TransientError, PermanentError}]
  /\ api = "convert"
  /\ pdf = [open_error |-> None]
  /\ total_pages = 1
  /\ overflow_checks \in BOOLEAN
  /\ InitCommon

NextPage == Next \/ Tick

SpecPage == InitPage /\ [][NextPage]_vars

\* --------------------------------------------------------------------------
\* The front of the conversion and its callbacks: both entry points, files
\* that do not open, selections that expand to nothing, a progress callback,
\* and a caller that drops the conversion while it runs
\* --------------------------------------------------------------------------

\* the document has at most FrontPages pages in this specification
FrontPages == 3

FrontSelections ==
  { [kind |-> "All"],
    [kind |-> "Single", p |-> 2],
    [kind |-> "Range", start |-> 2, end |-> FrontPages + 1] }

FrontConfigs ==
  [ maintain_format  : BOOLEAN,
    concurrency      : ConcurrencyChoices,
    max_retries      : RetryChoices,
    retry_backoff_ms : {DefaultRetryBackoffMs},
    api_timeout_secs : {DefaultApiTimeoutSecs},
    pages            : FrontSelections,
    password         : {None, Some(<<"p", "w">>)},
    progress_callback : {TRUE} ]

InitFront ==
  /\ cfg \in FrontConfigs
  /\ provider = [errors |-> {PermanentError}]
  /\ api \in {"convert", "convert_stream"}
  /\ pdf \in [open_error : OpenOutcomes]
  /\ total_pages \in 0..FrontPages
  /\ overflow_checks = FALSE
  /\ InitCommon

\* the caller drops the future of convert while the pipeline runs, or the
\* receiver spawn_lazy_render_encode gave it: the calls in flight and the
\* receiver, with the pages it buffers, are dropped
DropReceiver ==
  /\ api \in {"convert", "spawn_lazy_render_encode"}
  /\ phase = "running"
  /\ phase' = "cancelled"
  /\ tasks' = {}
  /\ chan' = <<>>
  /\ rx_alive' = FALSE
  /\ UNCHANGED <<cfg, provider, api, pdf, fs, total_pages, overflow_checks, page_indices, prod,
                 results, prior_markdown, out, provider_log, events>>

\* the pages of a selection that render_pages and encode_page keep, in order
EncodedOf(indices, encode_failed) ==
  SelectSeq([k \in 1..Len(indices) |-> [page_index |-> indices[k]]],
            LAMBDA e : e.page_index \notin encode_failed)

\* convert_stream up to its return: metadata, selection, render_pages on all
\* selected pages (any page that fails to render is fatal), encode_page on
\* each (a page that fails to encode is left out), and the stream over them
StreamOpen ==
  /\ api = "convert_stream"
  /\ phase = "start"
  /\ IF pdf.open_error # None
     THEN /\ out' = extract_metadata_error(pdf.open_error[1])
          /\ phase' = "done"
          /\ UNCHANGED <<page_indices, chan>>
     ELSE LET indices == to_indices(cfg.pages, total_pages)
          IN  IF indices = <<>>
              THEN /\ out' = [kind |-> "PageOutOfRange", page |-> 0, total |-> total_pages]
                   /\ phase' = "done"
                   /\ UNCHANGED <<page_indices, chan>>
              ELSE /\ page_indices' = indices
                   /\ \E r \in OpenOutcomes :
                        IF r # None
                        THEN /\ out' = map_pdf_open_error(r[1], cfg.password # None)
                             /\ phase' = "done"
                             /\ chan' = chan
                        ELSE \E render_failed \in SUBSET SeqRange(indices) :
                               IF render_failed # {}
                               THEN /\ out' = [kind |-> "RasterisationFailed",
                                               page |-> 1 + CHOOSE i \in render_failed :
                                                              \A j \in render_failed : i <= j]
                                    /\ phase' = "done"
                                    /\ chan' = chan
                               ELSE \E encode_failed \in SUBSET SeqRange(indices) :
                                      /\ out' = [kind |-> "Stream", items |-> <<>>,
                                                  calls_at_drop |-> None]
                                      /\ phase' = "streaming"
                                      /\ chan' = EncodedOf(indices, encode_failed)
  /\ UNCHANGED <<cfg, provider, api, pdf, fs, total_pages, overflow_checks, prod, rx_alive,
                 tasks, results, prior_markdown, provider_log, events>>

NextFront == Next \/ DropReceiver \/ StreamOpen

SpecFront == InitFront /\ [][NextFront]_vars

\* --------------------------------------------------------------------------
\* PageSelection::to_indices on its own, over every selection of small numbers
\* --------------------------------------------------------------------------

\* page numbers and page counts go up to IndexPages (a selection may name one more)
IndexPages == 3

\* Set holds at most IndexSetLen page numbers
IndexSetLen == 3

IndexSelections ==
  {[kind |-> "All"]}
    \cup {[kind |-> "Single", p |-> p] : p \in 0..(IndexPages + 1)}
    \cup {[kind |-> "Range", start |-> lo, end |-> hi] :
            lo \in 0..(IndexPages + 1), hi \in 0..(IndexPages + 1)}
    \cup {[kind |-> "Set", pages |-> s] :
            s \in UNION {[1..n -> 0..(IndexPages + 1)] : n \in 0..IndexSetLen}}

IndexConfigs ==
  [ maintain_format  : {FALSE},
    concurrency      : {1},
    max_retries      : {0},
    retry_backoff_ms : {DefaultRetryBackoffMs},
    api_timeout_secs : {DefaultApiTimeoutSecs},
    pages            : IndexSelections,
    password         : {None},
    progress_callback : {FALSE} ]

InitIndices ==
  /\ cfg \in IndexConfigs
  /\ provider = [errors |-> {}]
  /\ api = "to_indices"
  /\ pdf = [open_error |-> None]
  /\ total_pages \in 0..IndexPages
  /\ overflow_checks = FALSE
  /\ InitCommon

\* config.pages.to_indices(total_pages) is called
ExpandSelection ==
  /\ api = "to_indices"
  /\ phase = "start"
  /\ page_indices' = to_indices(cfg.pages, total_pages)
  /\ phase' = "done"
  /\ UNCHANGED <<cfg, provider, api, pdf, fs, total_pages, overflow_checks, prod, chan, rx_alive,
                 tasks, results, prior_markdown, out, provider_log, events>>

SpecIndices == InitIndices /\ [][ExpandSelection]_vars

\* --------------------------------------------------------------------------
\* clean_markdown alone, applied to a text and then to its own output: every
\* text made of a few pieces that the passes of clean_markdown act on
\* --------------------------------------------------------------------------

\* a text has at most CleanPieces pieces in this specification
CleanPieces == 4

\* a letter, a line feed, a blank line, a fence, a zero-width space, an image
\* link without alternative text, a table separator row, a heading mark, a
\* carriage return, a space
CleanTokens ==
  { <<"x">>,
    <<"\n">>,
    <<"\n", "\n">>,
    <<BT, BT, BT>>,
    <<"U+200B">>,
    <<"!", "[", "]", "(", "u", ")">>,
    <<"|", "-", "|">>,
    <<"#", " ">>,
    <<"\r">>,
    <<" ">> }

CleanInputs ==
  {Concat(pieces) : pieces \in UNION {[1..n -> CleanTokens] : n \in 0..CleanPieces}}

InitClean ==
  /\ cfg \in IndexConfigs
  /\ cfg.pages = [kind |-> "All"]
  /\ provider = [errors |-> {}]
  /\ api = "clean_markdown"
  /\ pdf = [open_error |-> None]
  /\ total_pages = 0
  /\ overflow_checks = FALSE
  /\ phase = "start"
  /\ fs = NoFiles
  /\ page_indices = <<>>
  /\ prod = [pc |-> "idle", pos |-> 1, held |-> None, dropped |-> {},
             late_renders |-> 0, late_encodes |-> 0,
             channel_capacity |-> 0, ready |-> None, sent |-> <<>>]
  /\ chan = <<>>
  /\ rx_alive = FALSE
  /\ tasks = {}
  /\ results = <<>>
  /\ prior_markdown = None
  /\ \E input \in CleanInputs :
       out = [kind |-> "Text", input |-> input, text |-> input, passes |-> 0]
  /\ provider_log = <<>>
  /\ events = <<>>

\* clean_markdown is called on the text: first on the input, then on its own
\* output
ApplyClean ==
  /\ api = "clean_markdown"
  /\ out.passes < 2
  /\ out' = [out EXCEPT !.text = clean_markdown(out.text), !.passes = out.passes + 1]
  /\ phase' = IF out.passes = 1 THEN "done" ELSE "cleaned"
  /\ UNCHANGED <<cfg, provider, api, pdf, fs, total_pages, overflow_checks, page_indices, prod, chan,
                 rx_alive, tasks, results, prior_markdown, provider_log, events>>

SpecClean == InitClean /\ [][ApplyClean]_vars

\* --------------------------------------------------------------------------
\* The stream convert_stream returns (src/stream.rs): it holds the encoded
\* pages (chan) and the calls in flight (tasks); out keeps the items it has
\* yielded and, once it is dropped, the number of provider calls made by then
\* --------------------------------------------------------------------------

\* the document has at most StreamPages pages in this specification
StreamPages == 4

StreamConfigs ==
  [ maintain_format  : BOOLEAN,
    concurrency      : ConcurrencyChoices,
    max_retries      : RetryChoices,
    retry_backoff_ms : {DefaultRetryBackoffMs},
    api_timeout_secs : {DefaultApiTimeoutSecs},
    pages            : {[kind |-> "All"]},
    password         : {None},
    progress_callback : {FALSE} ]

InitStream ==
  /\ cfg \in StreamConfigs
  /\ provider = [errors |-> {PermanentError}]
  /\ api = "convert_stream"
  /\ pdf \in [open_error : OpenOutcomes]
  /\ total_pages \in 0..StreamPages
  /\ overflow_checks = FALSE
  /\ InitCommon

\* the provider calls made so far, over all pages
RECURSIVE CallsOf(_)
CallsOf(pages) ==
  IF pages = {} THEN 0
  ELSE LET p == CHOOSE q \in pages : TRUE
       IN  provider_log[p].calls + CallsOf(pages \ {p})

TotalCalls == CallsOf(DOMAIN provider_log)

\* the closure of the stream: a result without error is post-processed and
\* yielded as Ok, the error of a failed one is taken out and yielded as Err
stream_item(result) ==
  IF result.error = None
  THEN [kind |-> "Ok", page |-> [result EXCEPT !.markdown = clean_markdown(result.markdown)]]
  ELSE [kind |-> "Err", error |-> result.error[1]]

\* the page an item is about
ItemPage(item) == IF item.kind = "Ok" THEN item.page.page_num ELSE item.error.page

\* the next encoded page is taken and its process_page started, with no
\* prior page
StreamStartPage ==
  /\ phase = "streaming"
  /\ chan # <<>>
  /\ LET page_num == Head(chan).page_index + 1
     IN  /\ tasks' = tasks \cup {process_page_begin(page_num, None, cfg)}
         /\ provider_log' = LogWith(page_num, [calls |-> 1, last_err |-> None])
  /\ chan' = Tail(chan)
  /\ UNCHANGED <<cfg, provider, api, pdf, fs, total_pages, overflow_checks, phase, page_indices, prod,
                 rx_alive, results, prior_markdown, out, events>>

\* a stream that starts a call for every page it holds
StreamPullUnlimited == StreamStartPage

\* the stream is polled: `then` starts the next call when none is in flight,
\* buffer_unordered(concurrency) while fewer than concurrency are
StreamPull ==
  /\ IF cfg.maintain_format THEN tasks = {} ELSE Cardinality(tasks) < cfg.concurrency
  /\ StreamStartPage

\* process_page returned: the stream yields the item
StreamYield(t, result) ==
  /\ tasks' = tasks \ {t}
  /\ out' = [out EXCEPT !.items = Append(out.items, stream_item(result))]

\* the provider answers a call of the stream with a response
StreamChatOk ==
  /\ phase = "streaming"
  /\ \E t \in tasks :
       /\ t.pc = "chat"
       /\ \E response \in Responses(t.page_num) : StreamYield(t, chat_ok(t, response))
  /\ UNCHANGED <<cfg, provider, api, pdf, fs, total_pages, overflow_checks, phase, page_indices, prod,
                 chan, rx_alive, results, prior_markdown, provider_log, events>>

\* the provider answers a call of the stream with an error
StreamChatErr ==
  /\ phase = "streaming"
  /\ \E t \in tasks :
       /\ t.pc = "chat"
       /\ \E e \in provider.errors :
            LET r == chat_err(t, e, cfg, overflow_checks)
            IN  /\ provider_log' = LogWith(t.page_num, [LogOf(t.page_num) EXCEPT !.last_err = Some(e)])
                /\ CASE r.kind = "retry" ->
                          /\ tasks' = (tasks \ {t}) \cup {r.task}
                          /\ UNCHANGED <<phase, out>>
                     [] r.kind = "return" ->
                          /\ StreamYield(t, r.result)
                          /\ phase' = phase
                     [] r.kind = "panic" ->
                          /\ phase' = "panicked"
                          /\ tasks' = {}
                          /\ out' = out
  /\ UNCHANGED <<cfg, provider, api, pdf, fs, total_pages, overflow_checks, page_indices, prod, chan,
                 rx_alive, results, prior_markdown, events>>

\* a drop that leaves the work of the stream running
StreamDropDetached ==
  /\ phase = "streaming"
  /\ out' = [out EXCEPT !.calls_at_drop = Some(TotalCalls)]
  /\ UNCHANGED <<cfg, provider, api, pdf, fs, total_pages, overflow_checks, phase, page_indices, prod,
                 chan, rx_alive, tasks, results, prior_markdown, provider_log, events>>

\* the caller drops the stream: the futures in flight and the encoded pages
\* not yet taken are dropped with it
StreamDrop ==
  /\ phase = "streaming"
  /\ phase' = "dropped"
  /\ tasks' = {}
  /\ chan' = <<>>
  /\ out' = [out EXCEPT !.calls_at_drop = Some(TotalCalls)]
  /\ UNCHANGED <<cfg, provider, api, pdf, fs, total_pages, overflow_checks, page_indices, prod,
                 rx_alive, results, prior_markdown, provider_log, events>>

\* every page was taken and every call returned: the stream ends
StreamEnd ==
  /\ phase = "streaming"
  /\ chan = <<>>
  /\ tasks = {}
  /\ phase' = "done"
  /\ UNCHANGED <<cfg, provider, api, pdf, fs, total_pages, overflow_checks, page_indices, prod, chan,
                 rx_alive, tasks, results, prior_markdown, out, provider_log, events>>

NextStream ==
  \/ StreamOpen
  \/ StreamPull
  \/ StreamChatOk
  \/ StreamChatErr
  \/ SleepDone
  \/ StreamDrop
  \/ StreamEnd

SpecStream == InitStream /\ [][NextStream]_vars

\* --------------------------------------------------------------------------
\* Input resolution (src/pipeline/input.rs) in front of convert and
\* convert_stream: local files and downloads of every short content
\* --------------------------------------------------------------------------

\* b"%PDF"
Magic == <<"%", "P", "D", "F">>

\* the input has at most InputLen bytes in this specification
InputLen == 4

InputBytes == UNION {[1..n -> {"%", "P", "D", "F", "x"}] : n \in 0..InputLen}

\* resolve_local: the path must exist and open; read_exact of four bytes
\* fails on a shorter file, and the magic is compared only when it succeeded
resolve_local(file) ==
  IF file.access = "missing" THEN [kind |-> "FileNotFound"]
  ELSE IF file.access = "denied" THEN [kind |-> "PermissionDenied"]
  ELSE LET read_exact_ok == Len(file.bytes) >= 4
           magic         == SubSeq(file.bytes, 1, 4)
       IN  IF read_exact_ok /\ magic # Magic
           THEN [kind |-> "NotAPdf", magic |-> magic]
           ELSE [kind |-> "Resolved", input |-> "Local"]

\* download_url: the request must succeed; the magic is compared only when
\* the body has four bytes
download_url(file) ==
  IF file.access = "timeout" THEN [kind |-> "DownloadTimeout"]
  ELSE IF file.access = "failed" THEN [kind |-> "DownloadFailed"]
  ELSE IF Len(file.bytes) >= 4 /\ SubSeq(file.bytes, 1, 4) # Magic
       THEN [kind |-> "NotAPdf", magic |-> SubSeq(file.bytes, 1, 4)]
       ELSE [kind |-> "Resolved", input |-> "Downloaded"]

resolve_input(file) == IF file.is_url THEN download_url(file) ELSE resolve_local(file)

\* the inputs: a local path or a URL, how reaching it goes, its bytes, and
\* what pdfium makes of them (it opens nothing that does not start with %PDF)
InputFiles ==
  { f \in [ is_url     : BOOLEAN,
            access     : {"ok", "missing", "denied", "timeout", "failed"},
            bytes      : InputBytes,
            open_error : OpenOutcomes ] :
      /\ f.is_url => f.access \in {"ok", "timeout", "failed"}
      /\ ~f.is_url => f.access \in {"ok", "missing", "denied"}
      /\ ~StartsWith(f.bytes, Magic) => f.open_error = Some(FormatError)
      /\ f.access # "ok" => (f.bytes = <<>> /\ f.open_error = Some(FormatError)) }

InputConfigs ==
  [ maintain_format  : {FALSE},
    concurrency      : {1},
    max_retries      : {0},
    retry_backoff_ms : {DefaultRetryBackoffMs},
    api_timeout_secs : {DefaultApiTimeoutSecs},
    pages            : {[kind |-> "All"], [kind |-> "Single", p |-> 2]},
    password         : {None},
    progress_callback : {TRUE} ]

InitInput ==
  /\ cfg \in InputConfigs
  /\ provider = [errors |-> {PermanentError}]
  /\ api \in {"convert", "convert_stream"}
  /\ pdf \in InputFiles
  /\ fs = NoFiles
  /\ total_pages = 1
  /\ overflow_checks = FALSE
  /\ phase = "input"
  /\ page_indices = <<>>
  /\ prod = [pc |-> "idle", pos |-> 1, held |-> None, dropped |-> {},
             late_renders |-> 0, late_encodes |-> 0,
             channel_capacity |-> 0, ready |-> None, sent |-> <<>>]
  /\ chan = <<>>
  /\ rx_alive = FALSE
  /\ tasks = {}
  /\ results = <<>>
  /\ prior_markdown = None
  /\ out = [kind |-> "Pending"]
  /\ provider_log = <<>>
  /\ events = <<>>

\* step 1 of convert and of convert_stream: input::resolve_input(..).await?
ResolveInput ==
  /\ phase = "input"
  /\ LET r == resolve_input(pdf)
     IN  IF r.kind = "Resolved"
         THEN phase' = "provider" /\ out' = out
         ELSE phase' = "done" /\ out' = r
  /\ UNCHANGED <<cfg, provider, api, pdf, fs, total_pages, overflow_checks, page_indices, prod, chan,
                 rx_alive, tasks, results, prior_markdown, provider_log, events>>

\* step 2: resolve_provider(config)?, which fails when no provider is
\* configured or can be found in the environment
ResolveProvider ==
  /\ phase = "provider"
  /\ \E configured \in BOOLEAN :
       IF configured
       THEN phase' = "start" /\ out' = out
       ELSE phase' = "done" /\ out' = [kind |-> "ProviderNotConfigured"]
  /\ UNCHANGED <<cfg, provider, api, pdf, fs, total_pages, overflow_checks, page_indices, prod, chan,
                 rx_alive, tasks, results, prior_markdown, provider_log, events>>

NextInput ==
  ResolveInput \/ ResolveProvider \/ Start \/ StreamOpen \/ ProducerOpen \/ SpawnReturn

SpecInput == InitInput /\ [][NextInput]_vars

\* --------------------------------------------------------------------------
\* convert_to_file (src/convert.rs): convert, then the write to the temporary
\* sibling and the rename, with every file-system call able to fail
\* --------------------------------------------------------------------------

\* the document has at most FilePages pages in this specification
FilePages == 2

\* tokio::fs::write puts the data into the file in at most WriteChunks writes
WriteChunks == 2

\* what the output path held before the call
OldContent == <<"o", "l", "d">>

\* what an earlier, interrupted call left at the temporary path
StaleContent == <<"s", "t">>

FileConfigs ==
  [ maintain_format  : BOOLEAN,
    concurrency      : {1},
    max_retries      : RetryChoices,
    retry_backoff_ms : {DefaultRetryBackoffMs},
    api_timeout_secs : {DefaultApiTimeoutSecs},
    pages            : {[kind |-> "All"]},
    password         : {None},
    progress_callback : {FALSE} ]

\* the files when convert_to_file is called: `before` keeps what the output
\* path held, `data` is what was handed to fs::write, `cursor` how much of it
\* has been written
InitFiles ==
  [ path   : {None, Some(OldContent)},
    tmp    : {None, Some(StaleContent)},
    before : {None, Some(OldContent)},
    data   : {None},
    cursor : {None} ]

InitFile ==
  /\ cfg \in FileConfigs
  /\ provider = [errors |-> {TransientError}]
  /\ api = "convert_to_file"
  /\ pdf = [open_error |-> None]
  /\ fs \in {f \in InitFiles : f.before = f.path}
  /\ total_pages \in 0..FilePages
  /\ overflow_checks = FALSE
  /\ phase = "start"
  /\ page_indices = <<>>
  /\ prod = [pc |-> "idle", pos |-> 1, held |-> None, dropped |-> {},
             late_renders |-> 0, late_encodes |-> 0,
             channel_capacity |-> 0, ready |-> None, sent |-> <<>>]
  /\ chan = <<>>
  /\ rx_alive = FALSE
  /\ tasks = {}
  /\ results = <<>>
  /\ prior_markdown = None
  /\ out = [kind |-> "Pending"]
  /\ provider_log = <<>>
  /\ events = <<>>

\* Pdf2MdError::OutputWriteFailed
OutputWriteFailed == [kind |-> "OutputWriteFailed"]

\* `convert(input_str, config).await?` has returned: its error is
\* convert_to_file's error; otherwise create_dir_all(parent)
CreateDirAll ==
  /\ api = "convert_to_file"
  /\ phase = "done"
  /\ IF out.kind # "Ok"
     THEN phase' = "returned" /\ out' = out
     ELSE \E ok \in BOOLEAN :
            IF ok THEN phase' = "write" /\ out' = out
            ELSE phase' = "returned" /\ out' = OutputWriteFailed
  /\ UNCHANGED <<cfg, provider, api, pdf, fs, total_pages, overflow_checks, page_indices, prod, chan,
                 rx_alive, tasks, results, prior_markdown, provider_log, events>>

\* the length of one write of fs::write
ChunkLen(data) == Max(1, (Len(data) + WriteChunks - 1) \div WriteChunks)

\* a write that goes to the output path itself
WriteInPlace ==
  /\ phase = "write"
  /\ \E ok \in BOOLEAN :
       IF ~ok
       THEN /\ phase' = "returned"
            /\ out' = OutputWriteFailed
            /\ fs' = fs
       ELSE /\ out' = out
            /\ IF fs.cursor = None
               THEN /\ fs' = [fs EXCEPT !.path = Some(<<>>), !.data = Some(out.markdown),
                                        !.cursor = Some(0)]
                    /\ phase' = phase
               ELSE LET n == Min(Len(out.markdown), fs.cursor[1] + ChunkLen(out.markdown))
                    IN  /\ fs' = [fs EXCEPT !.path = Some(SubSeq(out.markdown, 1, n)),
                                            !.cursor = Some(n)]
                        /\ phase' = IF n = Len(out.markdown) THEN "rename" ELSE phase
  /\ UNCHANGED <<cfg, provider, api, pdf, total_pages, overflow_checks, page_indices, prod, chan,
                 rx_alive, tasks, results, prior_markdown, provider_log, events>>

\* tokio::fs::write(&tmp_path, &output.markdown): the file at
\* path.with_extension("md.tmp") is created or truncated, then the data is
\* written piece by piece; each of these can fail, leaving the temporary file
\* as it is at that moment
WriteTmp ==
  /\ phase = "write"
  /\ \E ok \in BOOLEAN :
       IF ~ok
       THEN /\ phase' = "returned"
            /\ out' = OutputWriteFailed
            /\ fs' = fs
       ELSE /\ out' = out
            /\ IF fs.cursor = None
               THEN /\ fs' = [fs EXCEPT !.tmp = Some(<<>>), !.data = Some(out.markdown),
                                        !.cursor = Some(0)]
                    /\ phase' = phase
               ELSE LET n == Min(Len(out.markdown), fs.cursor[1] + ChunkLen(out.markdown))
                    IN  /\ fs' = [fs EXCEPT !.tmp = Some(SubSeq(out.markdown, 1, n)),
                                            !.cursor = Some(n)]
                        /\ phase' = IF n = Len(out.markdown) THEN "rename" ELSE phase
  /\ UNCHANGED <<cfg, provider, api, pdf, total_pages, overflow_checks, page_indices, prod, chan,
                 rx_alive, tasks, results, prior_markdown, provider_log, events>>

\* tokio::fs::rename(&tmp_path, path), atomic, and the return of the stats
Rename ==
  /\ phase = "rename"
  /\ \E ok \in BOOLEAN :
       IF ok
       THEN /\ fs' = [fs EXCEPT !.path = fs.tmp, !.tmp = None]
            /\ out' = [kind |-> "Stats", stats |-> out.stats]
       ELSE /\ fs' = fs
            /\ out' = OutputWriteFailed
  /\ phase' = "returned"
  /\ UNCHANGED <<cfg, provider, api, pdf, total_pages, overflow_checks, page_indices, prod, chan,
                 rx_alive, tasks, results, prior_markdown, provider_log, events>>

NextFile == Next \/ CreateDirAll \/ WriteTmp \/ Rename

SpecFile == InitFile /\ [][NextFile]_vars

\* --------------------------------------------------------------------------
\* spawn_lazy_render_encode called on its own (src/pipeline/render.rs), as
\* its tests call it: any ascending list of indices, some beyond the document,
\* any requested capacity, and a caller that receives page after page
\* --------------------------------------------------------------------------

\* the document has at most ProducerPages pages in this specification, and the
\* indices go up to ProducerPages, which is beyond every document
ProducerPages == 3

\* the page_indices argument: the strictly ascending lists
ProducerIndexLists ==
  { l \in UNION {[1..n -> 0..ProducerPages] : n \in 0..(ProducerPages + 1)} :
      \A i, j \in 1..Len(l) : i < j => l[i] < l[j] }

InitProducer ==
  /\ cfg \in FrontConfigs
  /\ ~cfg.maintain_format /\ cfg.concurrency = 1 /\ cfg.max_retries = 0
  /\ cfg.pages = [kind |-> "All"]
  /\ provider = [errors |-> {}]
  /\ api = "spawn_lazy_render_encode"
  /\ pdf = [open_error |-> None]
  /\ total_pages \in 0..ProducerPages
  /\ overflow_checks = FALSE
  /\ InitCommon

\* spawn_lazy_render_encode up to ready_rx.await: the two channels are made
\* and the blocking task is spawned
SpawnLazyRenderEncode ==
  /\ api = "spawn_lazy_render_encode"
  /\ phase = "start"
  /\ \E indices \in ProducerIndexLists, channel_capacity \in {0, 1, 2} :
       /\ page_indices' = indices
       /\ prod' = [prod EXCEPT !.pc = "open", !.channel_capacity = channel_capacity]
  /\ rx_alive' = TRUE
  /\ phase' = "opening"
  /\ UNCHANGED <<cfg, provider, api, pdf, fs, total_pages, overflow_checks, chan, tasks, results,
                 prior_markdown, out, provider_log, events>>

\* rx.recv().await gives Some(page): the caller keeps the page
Recv ==
  /\ api = "spawn_lazy_render_encode"
  /\ phase = "running"
  /\ chan # <<>>
  /\ out' = [kind     |-> "Receiver",
             received |-> Append(IF out.kind = "Receiver" THEN out.received ELSE <<>>,
                                 Head(chan)),
             ended    |-> FALSE]
  /\ chan' = Tail(chan)
  /\ UNCHANGED <<cfg, provider, api, pdf, fs, total_pages, overflow_checks, phase, page_indices, prod,
                 rx_alive, tasks, results, prior_markdown, provider_log, events>>

\* rx.recv().await gives None: the channel is empty and the producer has
\* returned, dropping the sender
RecvEnd ==
  /\ api = "spawn_lazy_render_encode"
  /\ phase = "running"
  /\ chan = <<>>
  /\ prod.pc = "done"
  /\ out' = [kind     |-> "Receiver",
             received |-> IF out.kind = "Receiver" THEN out.received ELSE <<>>,
             ended    |-> TRUE]
  /\ phase' = "done"
  /\ UNCHANGED <<cfg, provider, api, pdf, fs, total_pages, overflow_checks, page_indices, prod, chan,
                 rx_alive, tasks, results, prior_markdown, provider_log, events>>

NextProducer ==
  \/ SpawnLazyRenderEncode
  \/ ProducerOpen
  \/ SpawnReturn
  \/ ProducerRender
  \/ ProducerSend
  \/ Recv
  \/ RecvEnd
  \/ DropReceiver

SpecProducer == InitProducer /\ [][NextProducer]_vars

\* --------------------------------------------------------------------------
\* convert under fair scheduling: the producer's blocking thread keeps
\* running and each of its renders ends, the runtime polls convert's future
\* whenever its await can proceed, every provider call returns, every sleep
\* ends. (What convert does once its scheduler has returned, steps 8 to 10,
\* is code without an await.)
\* --------------------------------------------------------------------------

\* the document has at most LivePages pages in this specification
LivePages == 3

InitLive ==
  /\ cfg \in Configs
  /\ provider = [errors |-> {TransientError}]
  /\ api = "convert"
  /\ pdf = [open_error |-> None]
  /\ total_pages \in 0..LivePages
  /\ overflow_checks = FALSE
  /\ InitCommon

SpecLive ==
  /\ InitLive
  /\ [][Next]_vars
  /\ WF_vars(ProducerOpen \/ ProducerRender \/ ProducerSend)
  /\ WF_vars(Start \/ SpawnReturn \/ ConcurrentPull \/ SequentialRecv)
  /\ WF_vars(ProviderOk \/ ProviderErr)
  /\ WF_vars(SleepDone)

\* --------------------------------------------------------------------------
\* Properties
\* --------------------------------------------------------------------------

\* how many of the returned pages have this page number
CountPage(pages, page_num) ==
  Cardinality({i \in 1..Len(pages) : pages[i].page_num = page_num})

\* the selected indices as a set
SelectedIndices == {page_indices[k] : k \in 1..Len(page_indices)}

\* C1: whenever convert returns Ok, processed_pages + failed_pages +
\* skipped_pages equals the number of selected page indices, whatever the mix
\* of successes, VLM failures and producer-side skips.
C1_StatsCoverSelection ==
  out.kind = "Ok" =>
    out.stats.processed_pages + out.stats.failed_pages + out.stats.skipped_pages
      = Len(page_indices)

\* convert returned Ok after a success, a VLM failure and a page dropped by
\* the producer
C1_MixedOutcomes ==
  /\ out.kind = "Ok"
  /\ out.stats.processed_pages > 0
  /\ out.stats.failed_pages > 0
  /\ prod.dropped # {}
  /\ out.stats.skipped_pages > 0

C3_MaxRetriesMeansError ==
  \A i \in 1..Len(results) :
    /\ results[i].retries <= cfg.max_retries
    /\ results[i].retries = cfg.max_retries => results[i].error # None

\* C3, amended: every PageResult of process_page has retries <= max_retries,
\* and one with retries = max_retries was returned after all max_retries + 1
\* provider calls were made (the last of which may have succeeded).
C3_MaxRetriesMeansAllCalls ==
  \A i \in 1..Len(results) :
    /\ results[i].retries <= cfg.max_retries
    /\ results[i].retries = cfg.max_retries
         => LogOf(results[i].page_num).calls = cfg.max_retries + 1

\* a page succeeded on its last permitted call, after a failed one
C3_SuccessOnLastCall ==
  \E i \in 1..Len(results) :
    /\ cfg.max_retries > 0
    /\ results[i].retries = cfg.max_retries
    /\ results[i].error = None

\* C4: process_page always returns a PageResult: it never unwinds, makes at
\* most max_retries + 1 provider calls, a success at call k (counted from 0)
\* has retries = k and no error, and after max_retries + 1 failures the result
\* has empty markdown, zero tokens and LlmFailed with the last provider error.
C4_ProcessPageContract ==
  /\ phase # "panicked"
  /\ \A p \in DOMAIN provider_log : provider_log[p].calls <= cfg.max_retries + 1
  /\ \A i \in 1..Len(results) :
       LET r   == results[i]
           log == LogOf(r.page_num)
       IN  IF r.error = None
           THEN r.retries = log.calls - 1
           ELSE /\ log.calls = cfg.max_retries + 1
                /\ r.markdown = <<>>
                /\ r.input_tokens = 0
                /\ r.output_tokens = 0
                /\ r.error[1].kind = "LlmFailed"
                /\ r.error[1].detail = log.last_err[1]

\* C5: no provider call of process_page stays unanswered for longer than
\* config.api_timeout_secs: by then the attempt is abandoned.
C5_AttemptWithinTimeout ==
  \A t \in tasks : t.pc = "chat" => t.waited <= cfg.api_timeout_secs

\* C6: once the provider has returned a permanent error for a page,
\* process_page is over: it neither sleeps nor calls the provider again.
C6_PermanentErrorEndsLoop ==
  \A t \in tasks : t.last_err # Some(PermanentError)

\* the page numbers of the returned pages without error
SuccessfulPageNums(pages) ==
  {pages[i].page_num : i \in {j \in 1..Len(pages) : pages[j].error = None}}

\* the markdown of the returned page with this number
MarkdownOf(pages, page_num) ==
  (CHOOSE p \in SeqRange(pages) : p.page_num = page_num).markdown

\* the document the statement describes: for the successful page numbers in
\* ascending order, the page's markdown, preceded from the second one on by
\* the separator rendered for that page
ExpectedBody(pages, sep) ==
  LET nums == SortedSeqOf(SuccessfulPageNums(pages))
  IN  Concat([k \in 1..Len(nums) |->
                (IF k > 1 THEN PageSeparator_render(sep, nums[k]) ELSE <<>>)
                  \o MarkdownOf(pages, nums[k])])

\* C7: the document convert returns is, after the front matter when
\* include_metadata is set, exactly the markdown of the pages without error,
\* each once, in ascending page-number order, with the separator between
\* adjacent successful pages rendered for the second page of the pair; failed
\* pages contribute neither content nor separator.
C7_DocumentIsSuccessfulPagesInOrder ==
  out.kind = "Ok" =>
    /\ \A n \in SuccessfulPageNums(out.pages) : CountPage(out.pages, n) = 1
    /\ out.markdown
         = (IF out.include_metadata THEN format_yaml_front_matter(out.metadata) ELSE <<>>)
             \o ExpectedBody(out.pages, out.page_separator)

\* a document with the page-numbered separator, a failed page between two
\* successful ones
C7_FailedPageBetweenSuccessful ==
  /\ out.kind = "Ok"
  /\ out.page_separator.kind = "Comment"
  /\ \E i, j, k \in 1..Len(out.pages) :
       /\ out.pages[i].page_num < out.pages[j].page_num
       /\ out.pages[j].page_num < out.pages[k].page_num
       /\ out.pages[i].error = None
       /\ out.pages[j].error # None
       /\ out.pages[k].error = None

\* the per-page outcomes, their completion order forgotten
Outcomes == SeqRange(results)

\* the outcomes in ascending page order, post-processed
OutcomesAscending ==
  LET nums == SortedSeqOf({r.page_num : r \in Outcomes})
  IN  [k \in 1..Len(nums) |->
         LET r == CHOOSE x \in Outcomes : x.page_num = nums[k]
         IN  IF r.error = None THEN [r EXCEPT !.markdown = clean_markdown(r.markdown)] ELSE r]

\* C8: in concurrent mode the output convert returns is a function of the set
\* of per-page outcomes alone, not of the order the calls completed in: the
\* pages are in ascending page order, and the markdown and the stats are those
\* of the pages in that order.
C8_OutputIndependentOfCompletionOrder ==
  (~cfg.maintain_format /\ out.kind = "Ok") =>
    /\ Cardinality(Outcomes) = Len(results)
    /\ out.pages = OutcomesAscending
    /\ out.markdown = assemble_document(OutcomesAscending, out.page_separator,
                                        out.include_metadata, out.metadata)
    /\ out.stats = compute_stats(OutcomesAscending, page_indices, total_pages)

\* concurrent mode returned Ok after three calls that completed out of page order
C8_CompletedOutOfOrder ==
  /\ ~cfg.maintain_format
  /\ out.kind = "Ok"
  /\ Len(results) >= 3
  /\ \E i, j \in 1..Len(results) : i < j /\ results[i].page_num > results[j].page_num

\* the encoded pages alive: buffered in the channel, held by the producer
\* until its send completes, owned by a process_page that has not returned
EncodedAlive ==
  Len(chan) + (IF prod.held # None THEN 1 ELSE 0) + Cardinality(tasks)

C10_InFlightWithinConcurrency ==
  ~cfg.maintain_format => Cardinality(tasks) <= cfg.concurrency

\* concurrency calls are in flight and a further page waits in the channel
C10_FullWithPageWaiting ==
  /\ ~cfg.maintain_format
  /\ cfg.concurrency > 1
  /\ Cardinality(tasks) = cfg.concurrency
  /\ chan # <<>>

\* C11: in sequential mode the PageResults are in strictly ascending page
\* order, at most one call is in flight, and while the call for a page is in
\* flight every earlier selected page has returned its result or was skipped
\* by the producer.
C11_SequentialInPageOrder ==
  cfg.maintain_format =>
    /\ \A i, j \in 1..Len(results) : i < j => results[i].page_num < results[j].page_num
    /\ Cardinality(tasks) <= 1
    /\ \A t \in tasks :
         /\ \A i \in 1..Len(results) : results[i].page_num < t.page_num
         /\ \A idx \in SelectedIndices :
              idx + 1 < t.page_num
                => (CountPage(results, idx + 1) = 1 \/ idx \in prod.dropped)

\* a sequential call is in flight after two pages returned, the next page
\* already waiting in the channel
C11_ThirdPageInFlight ==
  /\ cfg.maintain_format
  /\ tasks # {}
  /\ Len(results) >= 2
  /\ chan # <<>>

\* the markdown of the last result without error, None when there is none
LastSuccessfulMarkdown(rs) ==
  LET ok == {i \in 1..Len(rs) : rs[i].error = None}
  IN  IF ok = {} THEN None
      ELSE Some(rs[CHOOSE i \in ok : \A j \in ok : j <= i].markdown)

\* C12: in sequential mode the prior page passed to process_page is the
\* markdown of the most recent earlier page that succeeded, none if none did;
\* a failed page leaves it as it was.
C12_PriorIsLastSuccessfulPage ==
  cfg.maintain_format =>
    \A t \in tasks : t.prior_page = LastSuccessfulMarkdown(results)

\* the page before the one in flight failed, and a page before that succeeded
C12_CallAfterFailedPage ==
  /\ cfg.maintain_format
  /\ \E t \in tasks : t.prior_page # None
  /\ Len(results) >= 2
  /\ results[Len(results)].error # None

\* the positions in the callback's log of the calls of this name for this page
PageCalls(name, page_num) ==
  {i \in 1..Len(events) : events[i].call = name /\ events[i].page_num = page_num}

\* C13: for every page, on_page_start comes before the page's
\* on_page_complete or on_page_error; a started page gets at most one of the
\* two, and once its process_page has returned exactly one: on_page_complete
\* when the result has no error, on_page_error when it has one.
C13_PageCallsPaired ==
  \A page_num \in 1..total_pages :
    LET starts    == PageCalls("on_page_start", page_num)
        completes == PageCalls("on_page_complete", page_num)
        errors    == PageCalls("on_page_error", page_num)
    IN  /\ Cardinality(starts) <= 1
        /\ Cardinality(completes) + Cardinality(errors) <= 1
        /\ \A i \in completes \cup errors : \E j \in starts : j < i
        /\ \A k \in 1..Len(results) :
             results[k].page_num = page_num =>
               IF results[k].error = None
               THEN Cardinality(completes) = 1 /\ errors = {}
               ELSE Cardinality(errors) = 1 /\ completes = {}
        /\ (starts # {} /\ phase \in {"running", "done"}
              /\ ~\E t \in tasks : t.page_num = page_num)
             => Cardinality(completes) + Cardinality(errors) = 1

\* two pages were started before either returned, the later one returned
\* first, and one of the two failed
C13_InterleavedPages ==
  \E p, q \in 1..total_pages :
    /\ p < q
    /\ \E s \in PageCalls("on_page_start", q), e \in PageCalls("on_page_error", q),
          c \in PageCalls("on_page_complete", p) : s < e /\ e < c
    /\ \E s \in PageCalls("on_page_start", p), e \in PageCalls("on_page_error", q) : s < e

\* the positions in the callback's log of the calls of this name
Calls(name) == {i \in 1..Len(events) : events[i].call = name}

\* C14: once convert has called on_conversion_start and has returned, Ok or
\* Err, on_conversion_complete was called exactly once, after every call for
\* a page.
C14_CompleteFollowsStart ==
  (api = "convert" /\ phase = "done" /\ Calls("on_conversion_start") # {}) =>
    /\ Cardinality(Calls("on_conversion_complete")) = 1
    /\ events[Len(events)].call = "on_conversion_complete"

\* C15: convert returns Ok whenever a page has a PageResult without error,
\* with failed_pages the number of PageResults with an error, and returns
\* AllPagesFailed only when every PageResult has an error.
C15_OkWithAnySuccess ==
  out.kind \in {"Ok", "AllPagesFailed"} =>
    LET ok     == {i \in 1..Len(results) : results[i].error = None}
        failed == {i \in 1..Len(results) : results[i].error # None}
    IN  /\ ok # {} => /\ out.kind = "Ok"
                      /\ out.stats.processed_pages = Cardinality(ok)
                      /\ out.stats.failed_pages = Cardinality(failed)
        /\ out.kind = "AllPagesFailed" => ok = {}

\* convert returned Ok with more failed pages than successful ones
C15_OkDespiteFailures ==
  /\ out.kind = "Ok"
  /\ out.stats.failed_pages > out.stats.processed_pages

\* C16: a page whose provider calls all fail is recorded as a failed
\* PageResult, and the scheduler goes on: every page it received from the
\* producer whose call is no longer in flight has its PageResult.
C16_FailedPageIsRecorded ==
  \A page_num \in DOMAIN provider_log :
    (~\E t \in tasks : t.page_num = page_num) =>
      /\ CountPage(results, page_num) = 1
      /\ \A i \in 1..Len(results) :
           (results[i].page_num = page_num /\ provider_log[page_num].last_err # None
              /\ provider_log[page_num].calls = cfg.max_retries + 1
              /\ results[i].error # None)
             => results[i].error[1].kind = "LlmFailed"

\* the indices a selection names within a document of total pages
NamedIndices(sel, total) ==
  CASE sel.kind = "All"    -> {i \in 0..(total - 1) : TRUE}
    [] sel.kind = "Single" -> {i \in 0..(total - 1) : i + 1 = sel.p}
    [] sel.kind = "Range"  -> {i \in 0..(total - 1) : sel.start <= i + 1 /\ i + 1 <= sel.end}
    [] sel.kind = "Set"    -> {i \in 0..(total - 1) : i + 1 \in SeqRange(sel.pages)}

\* C17: for every selection and every total, to_indices(total) is strictly
\* ascending (so without duplicates), every element is below total, and its
\* elements are exactly the pages the selection names within the document: a
\* Range is clipped to total, a Set is deduplicated and sorted.
C17_IndicesSortedDistinctInRange ==
  (api = "to_indices" /\ phase = "done") =>
    /\ \A i, j \in 1..Len(page_indices) : i < j => page_indices[i] < page_indices[j]
    /\ \A i \in 1..Len(page_indices) : page_indices[i] >= 0 /\ page_indices[i] < total_pages
    /\ SeqRange(page_indices) = NamedIndices(cfg.pages, total_pages)

\* a Set given out of order, with a duplicate, page 0 and a page beyond the
\* document, expanded to two indices
C17_UnsortedSetWithDuplicate ==
  /\ api = "to_indices"
  /\ phase = "done"
  /\ cfg.pages.kind = "Set"
  /\ Len(cfg.pages.pages) = IndexSetLen
  /\ \E i, j \in 1..Len(cfg.pages.pages) :
       i < j /\ cfg.pages.pages[i] = cfg.pages.pages[j] /\ cfg.pages.pages[i] >= 1
         /\ cfg.pages.pages[i] <= total_pages
  /\ \E i \in 1..Len(cfg.pages.pages) : cfg.pages.pages[i] > total_pages
  /\ Len(page_indices) >= 1

\* C18: when the selection expands to no index, convert and convert_stream
\* return PageOutOfRange, and they do so before any call on the progress
\* callback, with no producer started and no provider call made.
C18_EmptySelectionFailsFirst ==
  /\ (phase = "done" /\ pdf.open_error = None /\ api \in {"convert", "convert_stream"}
        /\ to_indices(cfg.pages, total_pages) = <<>>)
       => out.kind = "PageOutOfRange"
  /\ out.kind = "PageOutOfRange" =>
       /\ to_indices(cfg.pages, total_pages) = <<>>
       /\ events = <<>>
       /\ prod.pc = "idle"
       /\ ~rx_alive
       /\ chan = <<>>
       /\ tasks = {}
       /\ provider_log = <<>>
       /\ results = <<>>

\* convert with a callback returned PageOutOfRange for Single(n) on a
\* document of fewer than n pages
C18_SingleBeyondDocument ==
  /\ api = "convert"
  /\ cfg.progress_callback
  /\ out.kind = "PageOutOfRange"
  /\ cfg.pages.kind = "Single"
  /\ total_pages >= 1

OpenErrorKind(err_str, password) ==
  IF err_str = PasswordError
  THEN IF password = None THEN "PasswordRequired" ELSE "WrongPassword"
  ELSE "CorruptPdf"

\* C20: when convert is run on a file that does not open, its error is
\* PasswordRequired for a password-related failure with no password
\* configured, WrongPassword for one with a password configured, and
\* CorruptPdf otherwise.
C20_OpenFailureClassified ==
  (api = "convert" /\ phase = "done" /\ pdf.open_error # None) =>
    out.kind = OpenErrorKind(pdf.open_error[1], cfg.password)

\* C30: process_page does not sleep before attempt 0; before attempt k
\* (1 <= k <= max_retries) it sleeps exactly retry_backoff_ms * 2^(k-1)
\* milliseconds, a value computed without overflow or wrap-around; and after
\* the last failed attempt it returns without a sleep.
C30_BackoffIsExactPowerOfTwo ==
  /\ phase # "panicked"
  /\ \A t \in tasks :
       /\ t.attempt = 0 => (t.pc = "chat" /\ t.backoff = None)
       /\ t.pc = "sleep" =>
            /\ t.attempt \in 1..cfg.max_retries
            /\ t.backoff = Some([m |-> cfg.retry_backoff_ms, e |-> t.attempt - 1])
       /\ t.attempt <= cfg.max_retries

\* C21 as stated: a page dropped by the producer never makes convert fatal:
\* when pages were dropped and no PageResult has an error, convert returns Ok
\* and counts the dropped pages in stats.skipped_pages.
C21_DroppedPageNeverFatal ==
  (phase = "done" /\ out.kind \in {"Ok", "AllPagesFailed"} /\ prod.dropped # {}
     /\ \A i \in 1..Len(results) : results[i].error = None)
    => (out.kind = "Ok" /\ out.stats.skipped_pages = Cardinality(prod.dropped))

\* C21, amended: a selected page whose rendering or encoding fails in the
\* producer has no PageResult; every other selected page is still rendered
\* and submitted and has its PageResult when convert returns; convert returns
\* Ok, with the dropped pages counted in stats.skipped_pages, whenever a page
\* succeeded, and AllPagesFailed only when none did.
C21_DroppedPageIsSkipped ==
  /\ \A idx \in prod.dropped :
       /\ CountPage(results, idx + 1) = 0
       /\ \A t \in tasks : t.page_num # idx + 1
       /\ \A k \in 1..Len(chan) : chan[k].page_index # idx
  /\ (phase = "done" /\ out.kind \in {"Ok", "AllPagesFailed"}) =>
       /\ \A idx \in SelectedIndices \ prod.dropped : CountPage(results, idx + 1) = 1
       /\ (\E i \in 1..Len(results) : results[i].error = None) => out.kind = "Ok"
       /\ out.kind = "Ok" => out.stats.skipped_pages = Cardinality(prod.dropped)
       /\ out.kind = "AllPagesFailed" => \A i \in 1..Len(results) : results[i].error # None

\* convert returned Ok with a page skipped and a later page converted
C21_LaterPageConverted ==
  /\ out.kind = "Ok"
  /\ out.stats.skipped_pages >= 1
  /\ \E idx \in prod.dropped, i \in 1..Len(results) :
       results[i].page_num > idx + 1 /\ results[i].error = None

\* C26: clean_markdown is idempotent: applied to its own output it returns
\* that output unchanged.
C26_CleanIsIdempotent ==
  (api = "clean_markdown" /\ out.passes = 2) => out.text = clean_markdown(out.input)

\* C27: the output of clean_markdown contains no run of four or more
\* consecutive line feeds.
C27_NoRunOfFourLineFeeds ==
  (api = "clean_markdown" /\ out.passes = 1) =>
    \A i \in 1..Len(out.text) : RunLF(out.text, i) < 4

\* C28: the output of clean_markdown does not begin with a line that starts
\* with three backticks.
C28_NoLeadingFence ==
  (api = "clean_markdown" /\ out.passes = 1) => ~StartsWith(out.text, <<BT, BT, BT>>)

\* C29: every input that is reached (a readable local file, a completed
\* download) and whose first four bytes are not %PDF, an input of fewer than
\* four bytes included, is rejected by input resolution with NotAPdf, and no
\* later stage (provider resolution, metadata, rendering, provider calls) runs.
C29_NonPdfIsRejectedFirst ==
  (pdf.access = "ok" /\ ~StartsWith(pdf.bytes, Magic) /\ phase # "input") =>
    /\ phase = "done"
    /\ out.kind = "NotAPdf"
    /\ prod.pc = "idle"
    /\ page_indices = <<>>
    /\ provider_log = <<>>
    /\ events = <<>>

\* C25: during and after convert_to_file the output path holds what it held
\* before the call or, once the call has returned the stats, the complete
\* document; the document is written in full to the temporary sibling before
\* the rename; and when convert, create_dir_all, the write or the rename
\* fails, the path is unchanged and the call returns convert's fatal error or
\* OutputWriteFailed.
C25_OutputPathNeverPartial ==
  api = "convert_to_file" =>
    /\ fs.path = fs.before \/ (phase = "returned" /\ out.kind = "Stats" /\ fs.path = fs.data)
    /\ phase \in {"write", "rename"} =>
         /\ out.kind = "Ok"
         /\ fs.data # None => fs.data = Some(out.markdown)
    /\ phase = "rename" => fs.tmp = Some(out.markdown)
    /\ phase = "returned" =>
         /\ out.kind = "Stats" => (fs.data # None /\ fs.path = fs.data /\ fs.tmp = None)
         /\ out.kind # "Stats" =>
              /\ fs.path = fs.before
              /\ out.kind \in {"OutputWriteFailed", "AllPagesFailed", "PageOutOfRange",
                               "CorruptPdf", "PasswordRequired", "WrongPassword"}
              /\ fs.cursor # None => out.kind = "OutputWriteFailed"

\* the write failed half-way: the temporary file holds a proper, non-empty
\* prefix of the document and the output path its old content
C25_WriteFailedHalfWay ==
  /\ api = "convert_to_file"
  /\ phase = "returned"
  /\ out.kind = "OutputWriteFailed"
  /\ fs.before = Some(OldContent)
  /\ fs.path = Some(OldContent)
  /\ fs.tmp # None
  /\ fs.data # None
  /\ fs.tmp[1] # <<>>
  /\ Len(fs.tmp[1]) < Len(fs.data[1])

\* C22: once the stream returned by convert_stream has been dropped, no
\* provider call is started: no call is in flight, no page is left to take,
\* and the number of calls made stays what it was at the drop, in both modes.
C22_NoCallAfterStreamDrop ==
  (out.kind = "Stream" /\ out.calls_at_drop # None) =>
    /\ phase = "dropped"
    /\ tasks = {}
    /\ chan = <<>>
    /\ TotalCalls = out.calls_at_drop[1]

\* the stream was dropped after it yielded an item, with a page of the
\* selection never submitted
C22_DroppedPartway ==
  /\ phase = "dropped"
  /\ Len(out.items) >= 1
  /\ \E idx \in SelectedIndices : idx + 1 \notin DOMAIN provider_log

\* C23: with maintain_format the stream has at most one call in flight and
\* yields its items, Ok and Err, in strictly ascending page order; without it
\* the stream has at most config.concurrency calls in flight and yields each
\* item when its call returns, every page at most once.
C23_StreamOrderAndConcurrency ==
  out.kind = "Stream" =>
    /\ \A i, j \in 1..Len(out.items) : i < j => ItemPage(out.items[i]) # ItemPage(out.items[j])
    /\ \A i \in 1..Len(out.items) :
         /\ ItemPage(out.items[i]) \in DOMAIN provider_log
         /\ \A t \in tasks : t.page_num # ItemPage(out.items[i])
    /\ IF cfg.maintain_format
       THEN /\ Cardinality(tasks) <= 1
            /\ \A i, j \in 1..Len(out.items) :
                 i < j => ItemPage(out.items[i]) < ItemPage(out.items[j])
            /\ \A t \in tasks, i \in 1..Len(out.items) : ItemPage(out.items[i]) < t.page_num
       ELSE Cardinality(tasks) <= cfg.concurrency

\* without maintain_format a later page was yielded before an earlier one,
\* as an Err item followed by an Ok item
C23_YieldedOutOfPageOrder ==
  /\ out.kind = "Stream"
  /\ ~cfg.maintain_format
  /\ \E i, j \in 1..Len(out.items) :
       /\ i < j
       /\ ItemPage(out.items[i]) > ItemPage(out.items[j])
       /\ out.items[i].kind = "Err"
       /\ out.items[j].kind = "Ok"

\* C24: the encoded pages convert_stream holds are bounded independently of
\* the selection, by what the lazy pipeline of convert may hold (channel
\* capacity + concurrency + 1), and the pages are not all rendered and
\* encoded before the first item is asked for.
C24_StreamHoldsBoundedPages ==
  (api = "convert_stream" /\ phase = "streaming") =>
    /\ Len(chan) + Cardinality(tasks) <= cfg.concurrency + cfg.concurrency + 1
    /\ (Len(page_indices) >= 2 /\ provider_log = <<>>) => Len(chan) < Len(page_indices)

\* C31: in sequential mode the prior page passed to process_page is the
\* post-processed markdown of the last successful page, the text that page has
\* in the pages convert returns, not the provider's response as it came.
C31_PriorIsPostProcessed ==
  cfg.maintain_format =>
    \A t \in tasks :
      t.prior_page # None =>
        t.prior_page = Some(clean_markdown(LastSuccessfulMarkdown(results)[1]))

\* C32: with maintain_format the stream of convert_stream passes the previous
\* successful page's markdown into the call of each following page: every
\* call started after a page was yielded as Ok carries a format-continuity
\* message, with that page's markdown.
C32_StreamThreadsPriorPage ==
  (out.kind = "Stream" /\ cfg.maintain_format) =>
    \A t \in tasks :
      LET ok == {i \in 1..Len(out.items) : out.items[i].kind = "Ok"}
      IN  ok # {} =>
            /\ t.context # None
            /\ t.prior_page # None
            /\ \E i \in ok : t.prior_page[1] \in {out.items[i].page.markdown,
                                                  RawContent(out.items[i].page.page_num)}

\* C33: with maintain_format convert has at most one process_page call in
\* flight whatever config.concurrency is, and it takes a page from the channel
\* only when no call is in flight: not before the call for the current page,
\* with all its retries and back-off sleeps, has returned.
C33_SequentialOneCallAtATime ==
  /\ [](cfg.maintain_format => Cardinality(tasks) <= 1)
  /\ [][(cfg.maintain_format /\ Len(chan') < Len(chan))
          => (tasks = {} /\ Cardinality(tasks') = 1 /\ chan' = Tail(chan))]_vars

\* with concurrency 2 the sequential call for a page sleeps before its retry
\* while two further pages wait in the channel
C33_RetryWhilePagesWait ==
  /\ cfg.maintain_format
  /\ cfg.concurrency = 2
  /\ \E t \in tasks : t.pc = "sleep"
  /\ Len(chan) = 2

\* whether a is a subsequence of b: b with some elements left out
RECURSIVE IsSubsequence(_, _)
IsSubsequence(a, b) ==
  IF a = <<>> THEN TRUE
  ELSE IF b = <<>> THEN FALSE
  ELSE IF Head(a) = Head(b) THEN IsSubsequence(Tail(a), Tail(b))
  ELSE IsSubsequence(a, Tail(b))

\* C34: the page indices the producer sends on the channel form a
\* subsequence of the selection it was given: each index is sent at most once,
\* in the selection's ascending order, belongs to the selection and is below
\* the document's page count; an index beyond the document is skipped, neither
\* rendered nor sent, and so is a page whose rendering or encoding failed.
C34_SentIsSubsequenceOfSelection ==
  /\ IsSubsequence(prod.sent, page_indices)
  /\ \A i, j \in 1..Len(prod.sent) : i < j => prod.sent[i] < prod.sent[j]
  /\ \A i \in 1..Len(prod.sent) :
       /\ prod.sent[i] \in SeqRange(page_indices)
       /\ prod.sent[i] < total_pages
       /\ prod.sent[i] \notin prod.dropped
  /\ prod.held # None => prod.held[1].page_index < total_pages
  /\ \A idx \in prod.dropped : idx < total_pages

\* the producer has gone through a selection with an index beyond the
\* document and a page that failed, and has sent two pages
C34_SkippedAndSent ==
  /\ api = "spawn_lazy_render_encode"
  /\ prod.pc = "done"
  /\ Len(prod.sent) >= 2
  /\ prod.dropped # {}
  /\ \E k \in 1..Len(page_indices) : page_indices[k] >= total_pages

\* the page indices the caller has received
Received ==
  IF out.kind = "Receiver"
  THEN [k \in 1..Len(out.received) |-> out.received[k].page_index]
  ELSE <<>>

\* C35: for every requested capacity c the channel never buffers more than
\* max(c, 1) encoded pages; a full channel makes the producer wait with its
\* page, which is neither dropped nor written over another: as long as the
\* receiver exists, the pages sent are exactly the pages received followed by
\* the pages buffered, each once and in send order; and when the producer has
\* gone through the selection and the channel is drained, the next receive
\* gives end-of-stream, which is given only then.
C35_ChannelBoundedLosslessClosing ==
  api = "spawn_lazy_render_encode" =>
    /\ Len(chan) <= (IF prod.channel_capacity >= 1 THEN prod.channel_capacity ELSE 1)
    /\ rx_alive => prod.sent = Received \o [k \in 1..Len(chan) |-> chan[k].page_index]
    /\ prod.pc = "send" => (prod.held # None /\ prod.held[1].page_index \notin SeqRange(prod.sent))
    /\ (phase = "running" /\ prod.pc = "done" /\ chan = <<>>) => ENABLED RecvEnd
    /\ (out.kind = "Receiver" /\ out.ended) =>
         (prod.pc = "done" /\ chan = <<>> /\ Received = prod.sent)

\* a capacity of 0 was asked for: one page is buffered, the producer waits with
\* the next one, and the caller has received a page before
C35_BlockedOnFullChannel ==
  /\ api = "spawn_lazy_render_encode"
  /\ prod.channel_capacity = 0
  /\ phase = "running"
  /\ Len(chan) = 1
  /\ prod.pc = "send"
  /\ Len(Received) >= 1

\* the errors spawn_lazy_render_encode can return
SpawnErrors == {"Internal", "CorruptPdf", "PasswordRequired", "WrongPassword"}

\* C36: the producer sends its ready signal exactly once on every path, and
\* before it renders or sends a page; spawn_lazy_render_encode returns Err
\* exactly when the library load or the open failed, and then no page is ever
\* rendered or sent; it returns the receiver only after the PDF was opened;
\* and a page that fails after the signal never makes the call fail.
C36_ReadySignalOnceAndFirst ==
  /\ [](api = "spawn_lazy_render_encode" =>
          /\ prod.pc \in {"idle", "open"} <=> prod.ready = None
          /\ (prod.pc \in {"render", "send"} \/ prod.sent # <<>> \/ prod.dropped # {}
                \/ prod.held # None \/ chan # <<>> \/ prod.pos > 1)
               => prod.ready = Some([kind |-> "Ok"])
          /\ (prod.ready # None /\ prod.ready[1].kind # "Ok") =>
               /\ prod.ready[1].kind \in SpawnErrors
               /\ prod.pc = "done"
               /\ phase \in {"opening", "done"}
               /\ phase = "done" => out = prod.ready[1]
          /\ out.kind \in SpawnErrors => out = prod.ready[1]
          /\ (phase \in {"running", "cancelled"} \/ out.kind = "Receiver")
               => prod.ready = Some([kind |-> "Ok"])
          /\ prod.dropped # {} => out.kind \in {"Pending", "Receiver"})
  /\ [][prod.ready # None => prod'.ready = prod.ready]_vars

\* the library could not be loaded: the call returned the error
C36_LibraryLoadFailed ==
  /\ api = "spawn_lazy_render_encode"
  /\ phase = "done"
  /\ out.kind = "Internal"
  /\ page_indices # <<>>
  /\ total_pages >= 1

\* C37: in convert_stream a page of the selection that fails to render is not
\* fatal: once the file has opened and the selection is not empty,
\* convert_stream returns the stream, never RasterisationFailed.
C37_StreamRenderFailureNonFatal ==
  (api = "convert_stream" /\ phase # "start" /\ page_indices # <<>>
     /\ out.kind \notin {"CorruptPdf", "PasswordRequired", "WrongPassword"})
    => out.kind = "Stream"

\* the channel is closed and drained and no call is in flight: the scheduler
\* of convert returns
SchedulerReturns ==
  phase = "running" /\ prod.pc = "done" /\ chan = <<>> /\ tasks = {}

\* C38: under fair scheduling the pipeline of convert eventually ends, in
\* sequential and in concurrent mode, for every document and every config
\* with concurrency >= 1: producer and scheduler never block each other for
\* good on the bounded channel, the channel is closed when the producer ends,
\* and the scheduler returns, or convert has returned; when convert has
\* returned from the pipeline, the producer has ended, the channel is empty,
\* no call is in flight and every page sent has its PageResult.
C38_ConvertReturns ==
  /\ <>(SchedulerReturns \/ phase = "done")
  /\ []((phase = "done" /\ out.kind \in {"Ok", "AllPagesFailed"}) =>
          /\ prod.pc = "done"
          /\ chan = <<>>
          /\ tasks = {}
          /\ {results[i].page_num : i \in 1..Len(results)}
               = {prod.sent[k] + 1 : k \in 1..Len(prod.sent)}
          /\ Len(results) = Len(prod.sent))

\* the producer waits at a full channel with a page in hand while every
\* permitted call is in flight
C38_ProducerWaitsForScheduler ==
  /\ phase = "running"
  /\ prod.pc = "send"
  /\ Len(chan) = Capacity
  /\ Cardinality(tasks) = (IF cfg.maintain_format THEN 1 ELSE cfg.concurrency)


\* C39: the retries field of a PageResult, and the retries field of its
\* LlmFailed error, is the number of provider calls that failed before the
\* last call of the page, whatever config.max_retries is.
C39_RetriesCountFailedCalls ==
  \A i \in 1..Len(results) :
    LET r == results[i]
    IN  /\ r.retries = LogOf(r.page_num).calls - 1
        /\ (r.error # None /\ r.error[1].kind = "LlmFailed") =>
             r.error[1].retries = LogOf(r.page_num).calls - 1


\* C40: when convert returns after its pipeline and the producer sent no page,
\* it returns AllPagesFailed with total = 0, never Ok; and every
\* AllPagesFailed has total = the number of PageResults produced, retries =
\* config.max_retries, and first_error = the error of the failed page with
\* the lowest page number ("Unknown error" when there is no PageResult).
C40_AllPagesFailedFields ==
  LET failed == {i \in 1..Len(results) : results[i].error # None}
      lowest == CHOOSE i \in failed :
                  \A j \in failed : results[i].page_num <= results[j].page_num
  IN  /\ (phase = "done" /\ out.kind \in {"Ok", "AllPagesFailed"} /\ prod.sent = <<>>) =>
           (out.kind = "AllPagesFailed" /\ out.total = 0)
      /\ (phase = "done" /\ out.kind = "AllPagesFailed") =>
           /\ out.total = Len(results)
           /\ out.retries = cfg.max_retries
           /\ out.first_error =
                (IF failed = {}
                 THEN <<"U", "n", "k", "n", "o", "w", "n", " ", "e", "r", "r", "o", "r">>
                 ELSE PageErrorText(results[lowest].error[1]))

\* convert returned AllPagesFailed for a selection of several pages none of
\* which the producer sent
C40_NoPageSent ==
  /\ phase = "done"
  /\ out.kind = "AllPagesFailed"
  /\ Len(page_indices) >= 2
  /\ prod.sent = <<>>

====
